---- MODULE Spec2Model ----
(***************************************************************************)
(* CrypNote: the byte-level serialization layer, the account vault         *)
(* (lock / unlock) and the message codec (encrypt / sign / decode).        *)
(*                                                                         *)
(* Bytes are sequences of integers 0..255 (Bytes / BytesReader.bytes).     *)
(* A read returns a record [err, val, rest]: err = "none" on success and   *)
(* the name of the thrown error class otherwise; rest is what the reader   *)
(* still holds.                                                            *)
(*                                                                         *)
(* WebCrypto and pako are libraries outside the repository.  They are      *)
(* modelled by small executable stand-ins that keep their contracts:       *)
(* deterministic derivation, decrypt inverts encrypt, AES-GCM fails with   *)
(* OperationError unless key, IV, associated data and ciphertext are the   *)
(* ones of the encryption, ECDSA verifies exactly the signatures made by   *)
(* the matching private key over the same bytes with the same hash.        *)
(***************************************************************************)
EXTENDS Integers, Sequences, FiniteSets, TLC

VARIABLES
    platform,     \* class of the exception importKey rejects malformed key bytes with
    accounts,     \* account id -> UnlockedAccount held in memory
    pwString,     \* account id -> the password string the account's password was made from
    edits,        \* number of changes made to accounts so far
    lockedAccount, \* the LockedAccount object produced by the last lock
    lockedOf,     \* the account state and password string that lock was called with
    storedBytes,  \* the serialized LockedAccount at rest (untrusted storage)
    tamper,       \* which byte of storedBytes was changed since it was written
    unlockRes,    \* outcome of the last unlock
    wire,         \* the message on the untrusted channel, with how it was made
    decodeRes,    \* outcome of the last decode
    probe,        \* a reader or writer called on its own: its input and what it gave
    updater,      \* the updater of the logged-in account: its flags and the locks in flight
    ui            \* what a screen holds: its lists and what is selected or dragged in them

vars == <<platform, accounts, pwString, edits, lockedAccount, lockedOf, storedBytes, tamper,
          unlockRes, wire, decodeRes, probe, updater, ui>>

----------------------------------------------------------------------------
(* Bounds *)

NumAccounts == 2

MaxContacts == 1

MaxEdits == 2

\* a nickname one byte longer than a 1-byte length prefix can state
LongNick == 256

\* edits of the contact list while one decode is pending
MaxPendingEdits == 1

\* accounts created on the accounts screen
MaxCreated == 1

\* items of an orderable list
MaxItems == 4

----------------------------------------------------------------------------
(* Byte sequences *)

Min(a, b) == IF a < b THEN a ELSE b

\* Uint8Array element store: ToUint8 keeps the low 8 bits
U8(n) == n % 256

\* sequencing: e is evaluated once and F continues with its value, as the
\* code awaits a read or a crypto call before going on
Then(e, F(_)) == CHOOSE out \in {F(v) : v \in {e}} : TRUE

Drop(b, n) == SubSeq(b, n + 1, Len(b))

Take(b, n) == SubSeq(b, 1, Min(n, Len(b)))

Rep(n, v) == [i \in 1..n |-> v]

\* sum of w(i) * b[i] over lo..hi, halving the range
RECURSIVE SumRange(_, _, _, _)
SumRange(b, lo, hi, weighted) ==
    IF lo > hi THEN 0
    ELSE IF lo = hi THEN (IF weighted THEN lo * b[lo] ELSE b[lo])
    ELSE LET mid == (lo + hi) \div 2 IN
         SumRange(b, lo, mid, weighted) + SumRange(b, mid + 1, hi, weighted)

SumTo(b, n) == SumRange(b, 1, n, FALSE)

WSumTo(b, n) == SumRange(b, 1, n, TRUE)

\* fingerprint of a byte string: any single-byte change and any change of
\* length (below 256) changes it
Fp(b) == <<Len(b) % 256, SumTo(b, Len(b)) % 256, WSumTo(b, Len(b)) % 256, (Len(b) \div 256) % 256>>

PadTo(b, n) == IF Len(b) >= n THEN SubSeq(b, 1, n) ELSE b \o Rep(n - Len(b), 0)

----------------------------------------------------------------------------
(* serde.ts: wire primitives *)

Ok(v, rest) == [err |-> "none", val |-> v, rest |-> rest]

Fail(e) == [err |-> e, val |-> <<>>, rest |-> <<>>]

requireBytes(r, space) == Len(r) >= space

readUint8(r) ==
    IF ~requireBytes(r, 1) THEN Fail("InvalidFormatError")
    ELSE Ok(r[1], Drop(r, 1))

writeUint8(n) == <<U8(n)>>

readUint16(r) ==
    IF ~requireBytes(r, 2) THEN Fail("InvalidFormatError")
    ELSE Ok(r[1] * 256 + r[2], Drop(r, 2))

writeUint16(n) == <<U8(n \div 256), n % 256>>

readUint32(r) ==
    IF ~requireBytes(r, 4) THEN Fail("InvalidFormatError")
    ELSE Ok(r[1] * 16777216 + r[2] * 65536 + r[3] * 256 + r[4], Drop(r, 4))

writeUint32(n) ==
    <<U8(n \div 16777216), (n \div 65536) % 256, (n \div 256) % 256, n % 256>>

readLen(r, bytes) ==
    CASE bytes = 1 -> readUint8(r)
      [] bytes = 2 -> readUint16(r)
      [] OTHER -> readUint32(r)

\* readLenBuffer without the requireBytes for the length read
readLenBuffer_norequire(r, bytes) ==
    Then(readLen(r, bytes), LAMBDA l :
    IF l.err # "none" THEN l
    ELSE Ok(Take(l.rest, l.val), Drop(l.rest, Min(l.val, Len(l.rest)))))

readLenBuffer(r, bytes) ==
    Then(readLen(r, bytes), LAMBDA l :
    IF l.err # "none" THEN l
    ELSE IF ~requireBytes(l.rest, l.val) THEN Fail("InvalidFormatError")
    ELSE Ok(SubSeq(l.rest, 1, l.val), Drop(l.rest, l.val)))

writeLenBuffer(bytes, buffer) ==
    (CASE bytes = 1 -> writeUint8(Len(buffer))
       [] bytes = 2 -> writeUint16(Len(buffer))
       [] OTHER -> writeUint32(Len(buffer)))
    \o buffer

----------------------------------------------------------------------------
(* Strings are sequences of Unicode scalar values; TextEncoder / TextDecoder *)

ReplacementChar == 65533

IsCont(b) == b >= 128 /\ b < 192

Utf8One(c) ==
    IF c < 128 THEN <<c>>
    ELSE IF c < 2048 THEN <<192 + (c \div 64), 128 + (c % 64)>>
    ELSE <<224 + (c \div 4096), 128 + ((c \div 64) % 64), 128 + (c % 64)>>

RECURSIVE Utf8EncodeRange(_, _, _)
Utf8EncodeRange(s, lo, hi) ==
    IF lo > hi THEN <<>>
    ELSE IF lo = hi THEN Utf8One(s[lo])
    ELSE LET mid == (lo + hi) \div 2 IN
         Utf8EncodeRange(s, lo, mid) \o Utf8EncodeRange(s, mid + 1, hi)

TextEncode(s) == Utf8EncodeRange(s, 1, Len(s))

\* the scalar value a well-formed 2- or 3-byte sequence starting at i encodes,
\* or -1 when the bytes at i do not start one
Utf8Multi(b, i) ==
    IF b[i] >= 194 /\ b[i] < 224 /\ i + 1 <= Len(b) /\ IsCont(b[i + 1])
    THEN (b[i] - 192) * 64 + (b[i + 1] - 128)
    ELSE IF b[i] >= 224 /\ b[i] < 240 /\ i + 2 <= Len(b) /\ IsCont(b[i + 1]) /\ IsCont(b[i + 2])
    THEN LET c == (b[i] - 224) * 4096 + (b[i + 1] - 128) * 64 + (b[i + 2] - 128) IN
         IF c >= 2048 /\ (c < 55296 \/ c > 57343) THEN c ELSE -1
    ELSE -1

Utf8Width(b, i) == IF Utf8Multi(b, i) < 0 THEN 1 ELSE IF b[i] < 224 THEN 2 ELSE 3

\* byte i is a continuation byte already taken by the sequence before it
Utf8Taken(b, i) ==
    \/ i > 1 /\ b[i - 1] >= 192 /\ Utf8Width(b, i - 1) >= 2
    \/ i > 2 /\ b[i - 2] >= 192 /\ Utf8Width(b, i - 2) = 3

\* what byte i contributes: nothing when taken, its scalar value when it
\* starts a well-formed sequence, U+FFFD otherwise (TextDecoder is never
\* constructed with fatal)
Utf8Unit(b, i) ==
    IF b[i] < 128 THEN <<b[i]>>
    ELSE IF IsCont(b[i]) /\ Utf8Taken(b, i) THEN <<>>
    ELSE IF Utf8Multi(b, i) >= 0 THEN <<Utf8Multi(b, i)>>
    ELSE <<ReplacementChar>>

RECURSIVE Utf8DecodeRange(_, _, _)
Utf8DecodeRange(b, lo, hi) ==
    IF lo > hi THEN <<>>
    ELSE IF lo = hi THEN Utf8Unit(b, lo)
    ELSE LET mid == (lo + hi) \div 2 IN
         Utf8DecodeRange(b, lo, mid) \o Utf8DecodeRange(b, mid + 1, hi)

\* a leading byte order mark is dropped (ignoreBOM is left false)
TextDecode(b) ==
    IF Len(b) >= 3 /\ b[1] = 239 /\ b[2] = 187 /\ b[3] = 191
    THEN Utf8DecodeRange(b, 4, Len(b))
    ELSE Utf8DecodeRange(b, 1, Len(b))

readLenString(r, bytes) ==
    Then(readLenBuffer(r, bytes), LAMBDA b :
    IF b.err # "none" THEN b ELSE Ok(TextDecode(b.val), b.rest))

writeLenString(bytes, s) == writeLenBuffer(bytes, TextEncode(s))

----------------------------------------------------------------------------
(* Stand-ins for WebCrypto (crypto.subtle) and pako *)

KeyBytes == 32

TagLen == 16

\* SHA-256 of a derived key: a bytewise bijection, so distinct keys have
\* distinct verification hashes
Sha256(b) == [i \in 1..Len(b) |-> (b[i] * 7 + 3) % 256]

\* PBKDF2 + AES key export: 32 bytes determined by password, salt, iterations
Pbkdf2(pw, salt, iterations) ==
    PadTo(Fp(pw) \o Fp(salt) \o writeUint32(iterations) \o Take(pw, 10) \o Take(salt, 10), KeyBytes)

AesBody(key, iv, pt, sign) ==
    [i \in 1..Len(pt) |->
        (pt[i] + sign * (key[((i - 1) % Len(key)) + 1] + iv[((i - 1) % Len(iv)) + 1]) + 512) % 256]

AesTag(key, iv, ad, body) == Fp(key) \o Fp(iv) \o Fp(ad) \o Fp(body)

\* crypto.subtle.encrypt, AES-GCM with the default 128-bit tag
AesGcmEncrypt(key, iv, ad, pt) ==
    Then(AesBody(key, iv, pt, 1), LAMBDA body : body \o AesTag(key, iv, ad, body))

\* crypto.subtle.decrypt: OperationError unless the tag authenticates
AesGcmDecrypt(key, iv, ad, ct) ==
    IF Len(ct) < TagLen \/ Len(iv) = 0 THEN Fail("OperationError")
    ELSE Then(SubSeq(ct, 1, Len(ct) - TagLen), LAMBDA body :
         IF Drop(ct, Len(ct) - TagLen) # AesTag(key, iv, ad, body) THEN Fail("OperationError")
         ELSE Ok(AesBody(key, iv, body, -1), <<>>))

\* pako deflateRaw: run-length pairs (count, byte) closed by a 0 count
RECURSIVE DeflateFrom(_, _)
DeflateFrom(b, i) ==
    IF i > Len(b) THEN <<0>>
    ELSE LET run == CHOOSE n \in 1..Min(255, Len(b) - i + 1) :
                        /\ \A j \in i..(i + n - 1) : b[j] = b[i]
                        /\ (n = 255 \/ i + n > Len(b) \/ b[i + n] # b[i])
         IN <<run, b[i]>> \o DeflateFrom(b, i + run)

deflateRaw(b) == DeflateFrom(b, 1)

\* pako inflateRaw: throws on a stream that is not well formed
RECURSIVE InflateFrom(_, _)
InflateFrom(b, i) ==
    IF i > Len(b) THEN Fail("InflateError")
    ELSE IF b[i] = 0 THEN Ok(<<>>, <<>>)
    ELSE IF i + 1 > Len(b) THEN Fail("InflateError")
    ELSE Then(InflateFrom(b, i + 2), LAMBDA more :
         IF more.err # "none" THEN more ELSE Ok(Rep(b[i], b[i + 1]) \o more.val, <<>>))

inflateRaw(b) == InflateFrom(b, 1)

----------------------------------------------------------------------------
(* crypto.ts: the key codec *)

keyLen(curve) == CASE curve = 0 -> 32 [] curve = 1 -> 48 [] OTHER -> 66

\* whether an x coordinate has a point on the curve (about half of them do)
OnCurve(x) == SumTo(x, Len(x)) % 2 = 0

\* the private scalar of the point (x, parity)
PrivScalar(x, parity) == [i \in 1..Len(x) |-> (x[i] * 3 + 7 + parity) % 256]

KeyCurve(pub) == pub[1] \div 4

KeyX(pub) == Drop(pub, 1)

KeyParity(pub) == pub[1] % 2

\* what the caller sees when importKey rejects key material: the code turns
\* a TypeError into InvalidFormatError and rethrows anything else
ImportRejected == IF platform = "TypeError" THEN "InvalidFormatError" ELSE platform

\* a StoredPublicKey is its serialized form (equality is over these bytes)
StoredPublicKey_readFrom(r) ==
    Then((IF Len(r) = 0 THEN 0 ELSE r[1]) \div 4, LAMBDA curve :
    IF curve > 2 THEN Fail("OutdatedError")
    ELSE IF ~requireBytes(r, keyLen(curve) + 1) THEN Fail("InvalidFormatError")
    ELSE Then(SubSeq(r, 1, keyLen(curve) + 1), LAMBDA serialized :
         IF serialized[1] % 4 \in {2, 3} /\ OnCurve(KeyX(serialized))
         THEN Ok(serialized, Drop(r, keyLen(curve) + 1))
         ELSE Fail(ImportRejected)))

\* a StoredPrivateKey: the scalar d (serialized) and the public key its
\* CryptoKey was assembled with (inner)
StoredPrivateKey_readFrom(r, publicKey) ==
    Then(keyLen(KeyCurve(publicKey)), LAMBDA n :
    IF ~requireBytes(r, n) THEN Fail("InvalidFormatError")
    ELSE Then(SubSeq(r, 1, n), LAMBDA serialized :
         IF serialized = PrivScalar(KeyX(publicKey), KeyParity(publicKey))
         THEN Ok([pub |-> publicKey, d |-> serialized], Drop(r, n))
         ELSE Fail(ImportRejected)))

writeKeyPair(pair) == pair.publicKey \o pair.privateKey.d

readKeyPair(r) ==
    Then(StoredPublicKey_readFrom(r), LAMBDA publicKey :
    IF publicKey.err # "none" THEN publicKey
    ELSE Then(StoredPrivateKey_readFrom(publicKey.rest, publicKey.val), LAMBDA privateKey :
         IF privateKey.err # "none" THEN privateKey
         ELSE Ok([publicKey |-> publicKey.val, privateKey |-> privateKey.val], privateKey.rest)))

\* crypto.subtle.generateKey on P-256 followed by StoredPublicKey.new /
\* StoredPrivateKey.new: key number k stands for the randomness
GenPublic(k) == <<2 + (k % 2)>> \o <<2 * k>> \o Rep(keyLen(0) - 1, 0)

GenPrivate(k) == [pub |-> GenPublic(k), d |-> PrivScalar(KeyX(GenPublic(k)), k % 2)]

GenKeyPair(k) == [publicKey |-> GenPublic(k), privateKey |-> GenPrivate(k)]

\* lexicographic order on byte strings
SeqLess(a, b) ==
    LET diff == {i \in 1..Min(Len(a), Len(b)) : a[i] # b[i]} IN
    IF diff = {} THEN Len(a) < Len(b)
    ELSE LET m == CHOOSE i \in diff : \A j \in diff : i <= j IN a[m] < b[m]

\* crypto.subtle.deriveKey, ECDH to AES-GCM 256: the x coordinate of the
\* shared point, the same from either side and for either sign of a point
EcdhDeriveKey(publicKey, privateKey) ==
    IF KeyCurve(publicKey) # KeyCurve(privateKey.pub) THEN Fail("InvalidAccessError")
    ELSE Then(KeyX(publicKey), LAMBDA a :
         Then(KeyX(privateKey.pub), LAMBDA b :
         Then(IF SeqLess(a, b) THEN <<a, b>> ELSE <<b, a>>, LAMBDA p :
         Ok(Fp(p[1]) \o Fp(p[2]) \o Take(p[1], 12) \o Take(p[2], 12), <<>>))))

HashTags == {0, 1, 2}

\* crypto.subtle.sign, ECDSA: r || s, twice the coordinate length
EcdsaSign(privateKey, hash, msg) ==
    PadTo(Fp(privateKey.d) \o <<hash>> \o Fp(msg) \o Take(privateKey.d, 8) \o Take(msg, 8),
          2 * Len(privateKey.d))

\* crypto.subtle.verify, ECDSA
EcdsaVerify(publicKey, hash, signature, msg) ==
    signature = EcdsaSign([pub |-> publicKey,
                           d |-> PrivScalar(KeyX(publicKey), KeyParity(publicKey))], hash, msg)

----------------------------------------------------------------------------
(* password.ts *)

SaltLen == 64

Iterations == 128

Password_writeTo(p) ==
    writeUint8(0) \o writeLenBuffer(1, p.salt) \o writeUint32(p.iterations)
    \o writeUint8(p.hasher) \o writeLenBuffer(4, p.hash)

isPasswordHasher(hasher) == hasher = 0

\* readFrom that takes any hasher tag
Password_readFrom_anyhasher(r) ==
    Then(readUint8(r), LAMBDA tag :
    IF tag.err # "none" THEN tag
    ELSE IF tag.val # 0 THEN Fail("OutdatedError")
    ELSE Then(readLenBuffer(tag.rest, 1), LAMBDA salt :
    IF salt.err # "none" THEN salt
    ELSE Then(readUint32(salt.rest), LAMBDA iterations :
    IF iterations.err # "none" THEN iterations
    ELSE Then(readUint8(iterations.rest), LAMBDA hasher :
    IF hasher.err # "none" THEN hasher
    ELSE Then(readLenBuffer(hasher.rest, 4), LAMBDA hash :
    IF hash.err # "none" THEN hash
    ELSE Ok([salt |-> salt.val, iterations |-> iterations.val,
             hasher |-> hasher.val, hash |-> hash.val], hash.rest))))))

Password_readFrom(r) ==
    Then(readUint8(r), LAMBDA tag :
    IF tag.err # "none" THEN tag
    ELSE IF tag.val # 0 THEN Fail("OutdatedError")
    ELSE Then(readLenBuffer(tag.rest, 1), LAMBDA salt :
    IF salt.err # "none" THEN salt
    ELSE Then(readUint32(salt.rest), LAMBDA iterations :
    IF iterations.err # "none" THEN iterations
    ELSE Then(readUint8(iterations.rest), LAMBDA hasher :
    IF hasher.err # "none" THEN hasher
    ELSE IF ~isPasswordHasher(hasher.val) THEN Fail("OutdatedError")
    ELSE Then(readLenBuffer(hasher.rest, 4), LAMBDA hash :
    IF hash.err # "none" THEN hash
    ELSE Ok([salt |-> salt.val, iterations |-> iterations.val,
             hasher |-> hasher.val, hash |-> hash.val], hash.rest))))))

\* [CryptoKey, verification hash]: the key is its raw bytes
hashPassword(password, salt, iterations, hasher) ==
    Then(Pbkdf2(TextEncode(password), salt, iterations), LAMBDA firstHash :
    [key |-> firstHash, hash |-> Sha256(firstHash)])

\* UnlockedPassword.new; salt stands for the 64 random bytes
UnlockedPassword_new(password, salt) ==
    Then(hashPassword(password, salt, Iterations, 0), LAMBDA h :
    [locked |-> [salt |-> salt, iterations |-> Iterations, hasher |-> 0, hash |-> h.hash],
     key |-> h.key])

\* unlock that never compares the verification hash
UnlockedPassword_unlock_nocheck(locked, guess) ==
    Then(hashPassword(guess, locked.salt, locked.iterations, locked.hasher), LAMBDA h :
    Ok([locked |-> locked, key |-> h.key], <<>>))

UnlockedPassword_unlock(locked, guess) ==
    Then(hashPassword(guess, locked.salt, locked.iterations, locked.hasher), LAMBDA h :
    IF h.hash # locked.hash THEN Fail("IncorrectPassword")
    ELSE Ok([locked |-> locked, key |-> h.key], <<>>))

----------------------------------------------------------------------------
(* account.ts: SharedContact, Contact, AccountPublic *)

SharedContact_writeTo(c) ==
    writeUint8(0) \o c.dsaPublicKey \o c.dhPublicKey
    \o writeLenBuffer(1, c.signature) \o writeUint8(c.signatureHash)

\* SharedContact.ofAccount: signs the dh public key with the dsa private key
SharedContact_ofAccount(account) ==
    [dsaPublicKey |-> account.publicData.dsaPublicKey,
     dhPublicKey |-> account.dhKeyPair.publicKey,
     signature |-> EcdsaSign(account.dsaPrivateKey, 0, account.dhKeyPair.publicKey),
     signatureHash |-> 0]

\* readFrom without the signature check
SharedContact_readFrom_noverify(r) ==
    Then(readUint8(r), LAMBDA tag :
    IF tag.err # "none" THEN tag
    ELSE IF tag.val # 0 THEN Fail("OutdatedError")
    ELSE Then(StoredPublicKey_readFrom(tag.rest), LAMBDA dsaPublicKey :
    IF dsaPublicKey.err # "none" THEN dsaPublicKey
    ELSE Then(StoredPublicKey_readFrom(dsaPublicKey.rest), LAMBDA dhPublicKey :
    IF dhPublicKey.err # "none" THEN dhPublicKey
    ELSE Then(SubSeq(dsaPublicKey.rest, 1, Len(dsaPublicKey.rest) - Len(dhPublicKey.rest)),
              LAMBDA toVerify :
         Then(readLenBuffer(dhPublicKey.rest, 1), LAMBDA signature :
    IF signature.err # "none" THEN signature
    ELSE Then(readUint8(signature.rest), LAMBDA signatureHash :
    IF signatureHash.err # "none" THEN signatureHash
    ELSE IF signatureHash.val \notin HashTags THEN Fail("OutdatedError")
    ELSE Ok([dsaPublicKey |-> dsaPublicKey.val, dhPublicKey |-> dhPublicKey.val,
             signature |-> signature.val, signatureHash |-> signatureHash.val],
            signatureHash.rest)))))))

SharedContact_readFrom(r) ==
    Then(readUint8(r), LAMBDA tag :
    IF tag.err # "none" THEN tag
    ELSE IF tag.val # 0 THEN Fail("OutdatedError")
    ELSE Then(StoredPublicKey_readFrom(tag.rest), LAMBDA dsaPublicKey :
    IF dsaPublicKey.err # "none" THEN dsaPublicKey
    ELSE Then(StoredPublicKey_readFrom(dsaPublicKey.rest), LAMBDA dhPublicKey :
    IF dhPublicKey.err # "none" THEN dhPublicKey
    ELSE Then(SubSeq(dsaPublicKey.rest, 1, Len(dsaPublicKey.rest) - Len(dhPublicKey.rest)),
              LAMBDA toVerify :
         Then(readLenBuffer(dhPublicKey.rest, 1), LAMBDA signature :
    IF signature.err # "none" THEN signature
    ELSE Then(readUint8(signature.rest), LAMBDA signatureHash :
    IF signatureHash.err # "none" THEN signatureHash
    ELSE IF signatureHash.val \notin HashTags THEN Fail("OutdatedError")
    ELSE IF ~EcdsaVerify(dsaPublicKey.val, signatureHash.val, signature.val, toVerify)
         THEN Fail("InvalidFormatError")
    ELSE Ok([dsaPublicKey |-> dsaPublicKey.val, dhPublicKey |-> dhPublicKey.val,
             signature |-> signature.val, signatureHash |-> signatureHash.val],
            signatureHash.rest)))))))

\* SharedContact[eqSymbol]: equality by dsa public key
SharedContact_eq(a, b) == a.dsaPublicKey = b.dsaPublicKey

isAccount(c, account) == c.dsaPublicKey = account.publicData.dsaPublicKey

writeContact(contact) ==
    writeUint8(0) \o SharedContact_writeTo(contact.shared)
    \o writeLenString(1, contact.nickname) \o writeLenString(4, contact.note)

readContact(r) ==
    Then(readUint8(r), LAMBDA tag :
    IF tag.err # "none" THEN tag
    ELSE IF tag.val # 0 THEN Fail("OutdatedError")
    ELSE Then(SharedContact_readFrom(tag.rest), LAMBDA shared :
    IF shared.err # "none" THEN shared
    ELSE Then(readLenString(shared.rest, 1), LAMBDA nickname :
    IF nickname.err # "none" THEN nickname
    ELSE Then(readLenString(nickname.rest, 4), LAMBDA note :
    IF note.err # "none" THEN note
    ELSE Ok([shared |-> shared.val, nickname |-> nickname.val, note |-> note.val],
            note.rest)))))

RECURSIVE writeContacts(_, _)
writeContacts(contacts, n) ==
    IF n = 0 THEN <<>> ELSE writeContacts(contacts, n - 1) \o writeContact(contacts[n])

\* the loop of unlock: contactsLen times readContact
RECURSIVE readContacts(_, _)
readContacts(r, n) ==
    IF n = 0 THEN Ok(<<>>, r)
    ELSE Then(readContact(r), LAMBDA c :
         IF c.err # "none" THEN c
         ELSE Then(readContacts(c.rest, n - 1), LAMBDA more :
              IF more.err # "none" THEN more ELSE Ok(<<c.val>> \o more.val, more.rest)))

writeAccountPublic(account) ==
    writeUint8(0) \o writeLenString(1, account.name) \o account.dsaPublicKey

readAccountPublic(r) ==
    Then(readUint8(r), LAMBDA tag :
    IF tag.err # "none" THEN tag
    ELSE IF tag.val # 0 THEN Fail("OutdatedError")
    ELSE Then(readLenBuffer(tag.rest, 1), LAMBDA name :
    IF name.err # "none" THEN name
    ELSE Then(StoredPublicKey_readFrom(name.rest), LAMBDA dsaPublicKey :
    IF dsaPublicKey.err # "none" THEN dsaPublicKey
    ELSE Ok([name |-> TextDecode(name.val), dsaPublicKey |-> dsaPublicKey.val],
            dsaPublicKey.rest))))

----------------------------------------------------------------------------
(* account.ts: LockedAccount *)

IvLen == 12

\* readFrom that keeps a re-serialization of the parsed AccountPublic
LockedAccount_readFrom_reserialize(r) ==
    Then(readUint8(r), LAMBDA tag :
    IF tag.err # "none" THEN tag
    ELSE IF tag.val # 0 THEN Fail("OutdatedError")
    ELSE Then(Password_readFrom(tag.rest), LAMBDA password :
    IF password.err # "none" THEN password
    ELSE Then(readLenBuffer(password.rest, 1), LAMBDA iv :
    IF iv.err # "none" THEN iv
    ELSE Then(readLenBuffer(iv.rest, 4), LAMBDA encryptedData :
    IF encryptedData.err # "none" THEN encryptedData
    ELSE Then(readAccountPublic(encryptedData.rest), LAMBDA publicData :
    IF publicData.err # "none" THEN publicData
    ELSE Ok([password |-> password.val, iv |-> iv.val, encryptedData |-> encryptedData.val,
             publicDataBuffer |-> writeAccountPublic(publicData.val),
             publicData |-> publicData.val], publicData.rest))))))

LockedAccount_readFrom(r) ==
    Then(readUint8(r), LAMBDA tag :
    IF tag.err # "none" THEN tag
    ELSE IF tag.val # 0 THEN Fail("OutdatedError")
    ELSE Then(Password_readFrom(tag.rest), LAMBDA password :
    IF password.err # "none" THEN password
    ELSE Then(readLenBuffer(password.rest, 1), LAMBDA iv :
    IF iv.err # "none" THEN iv
    ELSE Then(readLenBuffer(iv.rest, 4), LAMBDA encryptedData :
    IF encryptedData.err # "none" THEN encryptedData
    ELSE Then(readAccountPublic(encryptedData.rest), LAMBDA publicData :
    IF publicData.err # "none" THEN publicData
    ELSE Ok([password |-> password.val, iv |-> iv.val, encryptedData |-> encryptedData.val,
             publicDataBuffer |-> SubSeq(encryptedData.rest, 1,
                                         Len(encryptedData.rest) - Len(publicData.rest)),
             publicData |-> publicData.val], publicData.rest))))))

LockedAccount_writeTo(l) ==
    writeUint8(0) \o Password_writeTo(l.password) \o writeLenBuffer(1, l.iv)
    \o writeLenBuffer(4, l.encryptedData) \o l.publicDataBuffer

\* the plaintext of the private bundle
PrivateDataBuffer(unlocked) ==
    writeUint8(0) \o unlocked.dsaPrivateKey.d \o writeKeyPair(unlocked.dhKeyPair)
    \o writeUint32(Len(unlocked.contacts))
    \o writeContacts(unlocked.contacts, Len(unlocked.contacts))

\* LockedAccount.lock; iv stands for the 12 random bytes
LockedAccount_lock(unlocked, iv) ==
    Then(writeAccountPublic(unlocked.publicData), LAMBDA publicDataBuffer :
    [password |-> unlocked.password.locked,
     iv |-> iv,
     encryptedData |-> AesGcmEncrypt(unlocked.password.key, iv, publicDataBuffer,
                                     PrivateDataBuffer(unlocked)),
     publicDataBuffer |-> publicDataBuffer,
     publicData |-> unlocked.publicData])

\* the part of unlock after decryption: parsing the private bundle
ReadPrivateData(locked, unlockedPassword, privateDataBuffer) ==
    Then(readUint8(privateDataBuffer), LAMBDA tag :
    IF tag.err # "none" THEN tag
    ELSE IF tag.val # 0 THEN Fail("OutdatedError")
    ELSE Then(StoredPrivateKey_readFrom(tag.rest, locked.publicData.dsaPublicKey),
              LAMBDA dsaPrivateKey :
    IF dsaPrivateKey.err # "none" THEN dsaPrivateKey
    ELSE Then(readKeyPair(dsaPrivateKey.rest), LAMBDA dhKeyPair :
    IF dhKeyPair.err # "none" THEN dhKeyPair
    ELSE Then(readUint32(dhKeyPair.rest), LAMBDA contactsLen :
    IF contactsLen.err # "none" THEN contactsLen
    ELSE Then(readContacts(contactsLen.rest, contactsLen.val), LAMBDA contacts :
    IF contacts.err # "none" THEN contacts
    ELSE Ok([password |-> unlockedPassword,
             publicData |-> locked.publicData,
             dsaPrivateKey |-> dsaPrivateKey.val,
             dhKeyPair |-> dhKeyPair.val,
             contacts |-> contacts.val], contacts.rest))))))

\* unlock without the catch that turns OperationError into TamperedError
LockedAccount_unlock_nocatch(locked, passwordGuess) ==
    Then(UnlockedPassword_unlock(locked.password, passwordGuess), LAMBDA unlockedPassword :
    IF unlockedPassword.err # "none" THEN unlockedPassword
    ELSE Then(AesGcmDecrypt(unlockedPassword.val.key, locked.iv,
                            locked.publicDataBuffer, locked.encryptedData), LAMBDA decrypted :
    IF decrypted.err # "none" THEN decrypted
    ELSE ReadPrivateData(locked, unlockedPassword.val, decrypted.val)))

\* unlock that decrypts before it looks at the verification hash
LockedAccount_unlock_decryptfirst(locked, passwordGuess) ==
    Then(hashPassword(passwordGuess, locked.password.salt,
                      locked.password.iterations, locked.password.hasher).key, LAMBDA key :
    Then(AesGcmDecrypt(key, locked.iv, locked.publicDataBuffer, locked.encryptedData),
         LAMBDA decrypted :
    Then(UnlockedPassword_unlock(locked.password, passwordGuess), LAMBDA unlockedPassword :
    IF decrypted.err = "OperationError" THEN Fail("TamperedError")
    ELSE IF unlockedPassword.err # "none" THEN unlockedPassword
    ELSE ReadPrivateData(locked, unlockedPassword.val, decrypted.val))))

LockedAccount_unlock(locked, passwordGuess) ==
    Then(UnlockedPassword_unlock(locked.password, passwordGuess), LAMBDA unlockedPassword :
    IF unlockedPassword.err # "none" THEN unlockedPassword
    ELSE Then(AesGcmDecrypt(unlockedPassword.val.key, locked.iv,
                            locked.publicDataBuffer, locked.encryptedData), LAMBDA decrypted :
    IF decrypted.err = "OperationError" THEN Fail("TamperedError")
    ELSE IF decrypted.err # "none" THEN decrypted
    ELSE ReadPrivateData(locked, unlockedPassword.val, decrypted.val)))

\* createAccount; k numbers the generated key pairs (dsa 2k-1, dh 2k)
createAccount(name, passwordString, salt, k) ==
    [password |-> UnlockedPassword_new(passwordString, salt),
     publicData |-> [name |-> name, dsaPublicKey |-> GenPublic(2 * k - 1)],
     dsaPrivateKey |-> GenPrivate(2 * k - 1),
     dhKeyPair |-> GenKeyPair(2 * k),
     contacts |-> <<>>]

----------------------------------------------------------------------------
(* encoded.ts: the message codec *)

\* Message is { kind: Text, content }; the model keeps the content
writeMessage(content) ==
    Then(TextEncode(content), LAMBDA bytes :
    Then(deflateRaw(bytes), LAMBDA compressed :
    IF Len(compressed) < Len(bytes)
    THEN writeUint8(1) \o compressed
    ELSE writeUint8(0) \o bytes))

\* consumes all input
readMessage(r) ==
    Then(readUint8(r), LAMBDA tag :
    IF tag.err # "none" THEN tag
    ELSE IF tag.val = 0 THEN Ok(TextDecode(tag.rest), <<>>)
    ELSE IF tag.val = 1
         THEN Then(inflateRaw(tag.rest), LAMBDA inflated :
              IF inflated.err # "none" THEN inflated ELSE Ok(TextDecode(inflated.val), <<>>))
    ELSE Fail("OutdatedError"))

\* decryptMessage that lets the decryption failure escape
decryptMessage_nocatch(publicKey, privateKey, ciphertext, additionalData, iv) ==
    Then(EcdhDeriveKey(publicKey, privateKey), LAMBDA key :
    IF key.err # "none" THEN key
    ELSE Then(AesGcmDecrypt(key.val, iv, additionalData, ciphertext), LAMBDA decrypted :
    IF decrypted.err # "none" THEN decrypted
    ELSE Then(readMessage(decrypted.val), LAMBDA message :
    IF message.err # "none" THEN message
    ELSE Ok([ok |-> TRUE, content |-> message.val], <<>>))))

\* Message | null: ok is FALSE for null
decryptMessage(publicKey, privateKey, ciphertext, additionalData, iv) ==
    Then(EcdhDeriveKey(publicKey, privateKey), LAMBDA key :
    IF key.err # "none" THEN key
    ELSE Then(AesGcmDecrypt(key.val, iv, additionalData, ciphertext), LAMBDA decrypted :
    IF decrypted.err = "OperationError" THEN Ok([ok |-> FALSE, content |-> <<>>], <<>>)
    ELSE IF decrypted.err # "none" THEN decrypted
    ELSE Then(readMessage(decrypted.val), LAMBDA message :
    IF message.err # "none" THEN message
    ELSE Ok([ok |-> TRUE, content |-> message.val], <<>>))))

NoMessage == [ok |-> FALSE, content |-> <<>>]

NoContact == [dsaPublicKey |-> <<>>, dhPublicKey |-> <<>>, signature |-> <<>>, signatureHash |-> 0]

\* a Decoded value or the error thrown; fields a kind does not have keep
\* their defaults
NoReceiver == [shared |-> NoContact, nickname |-> <<>>, note |-> <<>>]

Decoded(kind) ==
    [err |-> "none", kind |-> kind, sender |-> NoContact, receiver |-> NoReceiver,
     contact |-> NoContact, message |-> NoMessage, verified |-> FALSE]

Thrown(e) == [Decoded("none") EXCEPT !.err = e]

\* the loop run from the end of the list to its start
RECURSIVE TryContacts_backwards(_, _, _, _, _, _)
TryContacts_backwards(contacts, i, dhPrivateKey, ciphertext, senderBytes, iv) ==
    IF i > Len(contacts) THEN Decoded("SentToUnknown")
    ELSE Then(decryptMessage(contacts[Len(contacts) + 1 - i].shared.dhPublicKey, dhPrivateKey,
                             ciphertext, senderBytes, iv), LAMBDA message :
         IF message.err # "none" THEN Thrown(message.err)
         ELSE IF message.val.ok
              THEN [Decoded("SentMessage") EXCEPT !.receiver = contacts[Len(contacts) + 1 - i],
                                                  !.message = message.val]
         ELSE TryContacts_backwards(contacts, i + 1, dhPrivateKey, ciphertext, senderBytes, iv))

\* the loop over the copied contact list: the first contact whose key
\* decrypts, by index from i on
RECURSIVE TryContacts(_, _, _, _, _, _)
TryContacts(contacts, i, dhPrivateKey, ciphertext, senderBytes, iv) ==
    IF i > Len(contacts) THEN Decoded("SentToUnknown")
    ELSE Then(decryptMessage(contacts[i].shared.dhPublicKey, dhPrivateKey,
                             ciphertext, senderBytes, iv), LAMBDA message :
         IF message.err # "none" THEN Thrown(message.err)
         ELSE IF message.val.ok
              THEN [Decoded("SentMessage") EXCEPT !.receiver = contacts[i],
                                                  !.message = message.val]
         ELSE TryContacts(contacts, i + 1, dhPrivateKey, ciphertext, senderBytes, iv))

DecodeEncrypted(me, r) ==
    Then(SharedContact_readFrom(r), LAMBDA sender :
    IF sender.err # "none" THEN Thrown(sender.err)
    ELSE Then(SubSeq(r, 1, Len(r) - Len(sender.rest)), LAMBDA senderBytes :
         Then(readLenBuffer(sender.rest, 1), LAMBDA iv :
    IF iv.err # "none" THEN Thrown(iv.err)
    ELSE Then(readLenBuffer(iv.rest, 4), LAMBDA ciphertext :
    IF ciphertext.err # "none" THEN Thrown(ciphertext.err)
    ELSE IF Len(ciphertext.rest) # 0 THEN Thrown("InvalidFormatError")
    ELSE Then(decryptMessage(sender.val.dhPublicKey, me.dhKeyPair.privateKey,
                             ciphertext.val, senderBytes, iv.val), LAMBDA message :
    IF message.err # "none" THEN Thrown(message.err)
    ELSE IF ~message.val.ok /\ sender.val.dsaPublicKey = me.publicData.dsaPublicKey
         THEN TryContacts(me.contacts, 1, me.dhKeyPair.privateKey, ciphertext.val,
                          senderBytes, iv.val)
    ELSE [Decoded("ReceivedMessage") EXCEPT !.sender = sender.val,
                                            !.message = message.val])))))

DecodeSigned(r) ==
    Then(SharedContact_readFrom(r), LAMBDA sender :
    IF sender.err # "none" THEN Thrown(sender.err)
    ELSE Then(readLenBuffer(sender.rest, 1), LAMBDA signature :
    IF signature.err # "none" THEN Thrown(signature.err)
    ELSE Then(signature.rest, LAMBDA toVerify :
         Then(readMessage(signature.rest), LAMBDA message :
    IF message.err # "none" THEN Thrown(message.err)
    ELSE [Decoded("Signed") EXCEPT
              !.sender = sender.val,
              !.message = [ok |-> TRUE, content |-> message.val],
              !.verified = EcdsaVerify(sender.val.dsaPublicKey, 0, signature.val, toVerify)]))))

\* the card branch without the check for bytes left over
DecodeCard_notrailing(r) ==
    Then(SharedContact_readFrom(r), LAMBDA contact :
    IF contact.err # "none" THEN Thrown(contact.err)
    ELSE [Decoded("SharedContact") EXCEPT !.contact = contact.val])

DecodeCard(r) ==
    Then(SharedContact_readFrom(r), LAMBDA contact :
    IF contact.err # "none" THEN Thrown(contact.err)
    ELSE IF Len(contact.rest) # 0 THEN Thrown("InvalidFormatError")
    ELSE [Decoded("SharedContact") EXCEPT !.contact = contact.val])

decode(me, bytes) ==
    Then(readUint8(bytes), LAMBDA tag :
    IF tag.err # "none" THEN Thrown(tag.err)
    ELSE IF tag.val = 0 THEN DecodeEncrypted(me, tag.rest)
    ELSE IF tag.val = 1 THEN DecodeSigned(tag.rest)
    ELSE IF tag.val = 2 THEN DecodeCard(tag.rest)
    ELSE Thrown("OutdatedError"))

\* encryptMessage; recipient is a SharedContact, or NoContact for null;
\* iv stands for the 12 random bytes.  The sender's own keys are on one
\* curve, so deriveKey can only fail on the recipient's curve.
encryptMessage(me, recipient, content, iv) ==
    Then(writeMessage(content), LAMBDA toEncrypt :
    Then(SharedContact_writeTo(SharedContact_ofAccount(me)), LAMBDA senderBytes :
    Then(EcdhDeriveKey(IF recipient = NoContact THEN me.dhKeyPair.publicKey
                       ELSE recipient.dhPublicKey, me.dhKeyPair.privateKey), LAMBDA key :
    IF key.err # "none" THEN key
    ELSE Ok(writeUint8(0) \o senderBytes \o writeLenBuffer(1, iv)
            \o writeLenBuffer(4, AesGcmEncrypt(key.val, iv, senderBytes, toEncrypt)), <<>>))))

signMessage(me, content) ==
    Then(writeMessage(content), LAMBDA toSign :
    writeUint8(1) \o SharedContact_writeTo(SharedContact_ofAccount(me))
    \o writeLenBuffer(1, EcdsaSign(me.dsaPrivateKey, 0, toSign)) \o toSign)

contactCard(contact) == writeUint8(2) \o SharedContact_writeTo(contact)

----------------------------------------------------------------------------
(* Inputs *)

Accounts == 1..NumAccounts

Platforms == {"TypeError", "DataError"}

Names == {<<65>>, <<233, 66>>}

Nicknames == {<<98>>, Rep(LongNick, 97)}

Notes == {<<>>, <<110, 233>>}

Passwords == {<<112>>, <<113, 233>>}

Salt(n) == Rep(SaltLen, n)

Ivs == {Rep(IvLen, 5)}

\* how a stored byte is changed: by adding one of these, modulo 256
TamperDeltas == {1, 4}

NoAccount == [none |-> TRUE]

Idle == [state |-> "idle"]

NoTamper == [region |-> "none", pos |-> 0]

InitAccount(a) == createAccount(<<65>>, <<112>>, Salt(a), a)

----------------------------------------------------------------------------
(* The vault: one logged-in account, its lock at rest, and unlocking it *)

SetName(a, name) ==
    /\ edits < MaxEdits
    /\ name # accounts[a].publicData.name
    /\ accounts' = [accounts EXCEPT ![a].publicData.name = name]
    /\ edits' = edits + 1
    /\ unlockRes' = Idle
    /\ UNCHANGED <<platform, probe, updater, pwString, lockedAccount, lockedOf, storedBytes, tamper, wire, decodeRes, ui>>

\* "Add to Contacts" on the card of account b
AddContact(a, b, nickname) ==
    /\ edits < MaxEdits
    /\ a # b
    /\ Len(accounts[a].contacts) < MaxContacts
    /\ \A i \in 1..Len(accounts[a].contacts) :
           ~SharedContact_eq(accounts[a].contacts[i].shared, SharedContact_ofAccount(accounts[b]))
    /\ accounts' = [accounts EXCEPT ![a].contacts =
                       Append(@, [shared |-> SharedContact_ofAccount(accounts[b]),
                                  nickname |-> nickname, note |-> <<>>])]
    /\ edits' = edits + 1
    /\ unlockRes' = Idle
    /\ UNCHANGED <<platform, probe, updater, pwString, lockedAccount, lockedOf, storedBytes, tamper, wire, decodeRes, ui>>

SetNote(a, i, note) ==
    /\ edits < MaxEdits
    /\ i \in 1..Len(accounts[a].contacts)
    /\ note # accounts[a].contacts[i].note
    /\ accounts' = [accounts EXCEPT ![a].contacts[i].note = note]
    /\ edits' = edits + 1
    /\ unlockRes' = Idle
    /\ UNCHANGED <<platform, probe, updater, pwString, lockedAccount, lockedOf, storedBytes, tamper, wire, decodeRes, ui>>

\* the "Change password" form
ChangePassword(a, new) ==
    /\ edits < MaxEdits
    /\ new # pwString[a]
    /\ accounts' = [accounts EXCEPT ![a].password = UnlockedPassword_new(new, Salt(a + edits + 1))]
    /\ pwString' = [pwString EXCEPT ![a] = new]
    /\ edits' = edits + 1
    /\ unlockRes' = Idle
    /\ UNCHANGED <<platform, probe, updater, lockedAccount, lockedOf, storedBytes, tamper, wire, decodeRes, ui>>

\* the updater: lock the account and persist the result
Lock(a, iv) ==
    /\ lockedAccount' = LockedAccount_lock(accounts[a], iv)
    /\ lockedOf' = [account |-> accounts[a], pw |-> pwString[a], id |-> a]
    /\ storedBytes' = LockedAccount_writeTo(lockedAccount')
    /\ tamper' = NoTamper
    /\ unlockRes' = Idle
    /\ UNCHANGED <<platform, probe, updater, accounts, pwString, edits, wire, decodeRes, ui>>

\* offsets of the stored form: [from, to] of each region, 1-based
StoredRegions(l) ==
    LET ivAt == 1 + Len(Password_writeTo(l.password)) + 1
        ctAt == ivAt + Len(l.iv) + 4
        pubAt == ctAt + Len(l.encryptedData)
    IN [iv |-> <<ivAt + 1, ivAt + Len(l.iv)>>,
        ciphertext |-> <<ctAt + 1, ctAt + Len(l.encryptedData)>>,
        publicData |-> <<pubAt + 1, pubAt + Len(l.publicDataBuffer)>>]

RegionOf(l, i) ==
    LET r == StoredRegions(l) IN
    CASE i >= r.iv[1] /\ i <= r.iv[2] -> "iv"
      [] i >= r.ciphertext[1] /\ i <= r.ciphertext[2] -> "ciphertext"
      [] i >= r.publicData[1] /\ i <= r.publicData[2] -> "publicData"
      [] OTHER -> "other"

\* someone changes one byte of the IV, the ciphertext or the public data at rest
Tamper(i, d) ==
    /\ lockedOf # NoAccount
    /\ tamper = NoTamper
    /\ i \in 1..Len(storedBytes)
    /\ RegionOf(lockedAccount, i) # "other"
    /\ storedBytes' = [storedBytes EXCEPT ![i] = (@ + d) % 256]
    /\ tamper' = [region |-> RegionOf(lockedAccount, i), pos |-> i]
    /\ unlockRes' = Idle
    /\ UNCHANGED <<platform, probe, updater, accounts, pwString, edits, lockedAccount, lockedOf, wire, decodeRes, ui>>

UnlockOutcome(from, guess, parsed, pwResult, unlockResult) ==
    Then(pwResult, LAMBDA pw : Then(unlockResult, LAMBDA res :
    [state |-> "done", from |-> from, guess |-> guess,
     parseErr |-> parsed.err,
     pwErr |-> IF parsed.err # "none" THEN "notrun" ELSE pw.err,
     record |-> IF parsed.err = "none" /\ pw.err = "none" THEN pw.val.locked ELSE NoAccount,
     key |-> IF parsed.err = "none" /\ pw.err = "none" THEN pw.val.key ELSE <<>>,
     err |-> IF parsed.err # "none" THEN parsed.err ELSE res.err,
     val |-> IF parsed.err = "none" /\ res.err = "none" THEN res.val ELSE NoAccount]))

\* log in: unlock the LockedAccount object of this session ("object") or
\* the one read back from storage ("stored"); success logs the account in
Login(a, from, guess) ==
    /\ lockedOf # NoAccount
    /\ lockedOf.id = a
    /\ \E parsed \in {IF from = "object" THEN Ok(lockedAccount, <<>>)
                       ELSE LockedAccount_readFrom(storedBytes)} :
       \E l \in {IF parsed.err = "none" THEN parsed.val ELSE lockedAccount} :
       \E out \in {UnlockOutcome(from, guess, parsed,
                                 UnlockedPassword_unlock(l.password, guess),
                                 LockedAccount_unlock(l, guess))} :
          /\ unlockRes' = out
          /\ accounts' = IF out.err = "none" THEN [accounts EXCEPT ![a] = out.val] ELSE accounts
          /\ pwString' = IF out.err = "none" THEN [pwString EXCEPT ![a] = guess] ELSE pwString
    /\ UNCHANGED <<platform, probe, updater, edits, lockedAccount, lockedOf, storedBytes, ui>>

Unlock(a, from, guess) ==
    /\ Login(a, from, guess)
    /\ UNCHANGED <<tamper, wire, decodeRes, ui>>

InitVault ==
    /\ ui = Idle
    /\ platform \in Platforms
    /\ probe = Idle
    /\ updater = Idle
    /\ accounts = [a \in Accounts |-> InitAccount(a)]
    /\ pwString = [a \in Accounts |-> <<112>>]
    /\ edits = 0
    /\ lockedAccount = NoAccount
    /\ lockedOf = NoAccount
    /\ storedBytes = <<>>
    /\ tamper = NoTamper
    /\ unlockRes = Idle
    /\ wire = Idle
    /\ decodeRes = Idle

\* account 1 is the one logged in on this device; the others are the
\* people whose contact cards it can hold
NextVault ==
    \/ \E name \in Names : SetName(1, name)
    \/ \E b \in Accounts, nickname \in Nicknames : AddContact(1, b, nickname)
    \/ \E i \in 1..MaxContacts, note \in Notes : SetNote(1, i, note)
    \/ \E new \in Passwords : ChangePassword(1, new)
    \/ \E iv \in Ivs : Lock(1, iv)
    \/ \E from \in {"object", "stored"}, guess \in Passwords : Unlock(1, from, guess)

SpecVault == InitVault /\ [][NextVault]_vars

\* an account that has been used: renamed, with one annotated contact
UsedAccount(a, b) ==
    [InitAccount(a) EXCEPT
        !.publicData.name = <<233, 66>>,
        !.contacts = <<[shared |-> SharedContact_ofAccount(InitAccount(b)),
                        nickname |-> <<98>>, note |-> <<110, 233>>]>>]

InitTamper ==
    /\ ui = Idle
    /\ platform \in Platforms
    /\ probe = Idle
    /\ updater = Idle
    /\ \E first \in {InitAccount(1), UsedAccount(1, 2)} :
           accounts = [a \in Accounts |-> IF a = 1 THEN first ELSE InitAccount(a)]
    /\ pwString = [a \in Accounts |-> <<112>>]
    /\ edits = 0
    /\ lockedAccount = NoAccount
    /\ lockedOf = NoAccount
    /\ storedBytes = <<>>
    /\ tamper = NoTamper
    /\ unlockRes = Idle
    /\ wire = Idle
    /\ decodeRes = Idle

NextTamper ==
    \/ \E iv \in Ivs : Lock(1, iv)
    \/ \E i \in 1..Len(storedBytes), d \in TamperDeltas : Tamper(i, d)
    \/ \E guess \in Passwords : Unlock(1, "stored", guess)

SpecTamper == InitTamper /\ [][NextTamper]_vars

----------------------------------------------------------------------------
(* Messages: what the Encrypt, Sign, Share and Decode screens do *)

\* "hi", a text that compresses, and a text that begins with U+FEFF
Contents == {<<104, 105>>, Rep(6, 97), <<65279, 104>>}

Sent(kind, from, to, content, bytes) ==
    [state |-> "sent", kind |-> kind, from |-> from, to |-> to,
     content |-> content, bytes |-> bytes]

\* the Encrypt screen: recipient 0 is "you", i > 0 is the i-th contact
Encrypt(a, i, content, iv) ==
    /\ i \in 0..Len(accounts[a].contacts)
    /\ \E recipient \in {IF i = 0 THEN NoContact ELSE accounts[a].contacts[i].shared} :
       \E out \in {encryptMessage(accounts[a], recipient, content, iv)} :
          /\ out.err = "none"
          /\ wire' = Sent("encrypted", a, recipient, content, out.val)
    /\ tamper' = NoTamper
    /\ decodeRes' = Idle
    /\ unlockRes' = Idle
    /\ UNCHANGED <<platform, probe, updater, accounts, pwString, edits, lockedAccount, lockedOf, storedBytes, ui>>

\* the Sign screen
Sign(a, content) ==
    /\ wire' = Sent("signed", a, NoContact, content, signMessage(accounts[a], content))
    /\ tamper' = NoTamper
    /\ decodeRes' = Idle
    /\ unlockRes' = Idle
    /\ UNCHANGED <<platform, probe, updater, accounts, pwString, edits, lockedAccount, lockedOf, storedBytes, ui>>

\* the account's own contact card
Card(a) ==
    /\ wire' = Sent("card", a, NoContact, <<>>,
                    contactCard(SharedContact_ofAccount(accounts[a])))
    /\ tamper' = NoTamper
    /\ decodeRes' = Idle
    /\ unlockRes' = Idle
    /\ UNCHANGED <<platform, probe, updater, accounts, pwString, edits, lockedAccount, lockedOf, storedBytes, ui>>

\* the Decode screen of account me, given the bytes on the wire
Decode(me) ==
    /\ wire # Idle
    /\ Len(wire.bytes) > 0
    /\ decodeRes' = [state |-> "done", me |-> me, contacts |-> accounts[me].contacts,
                     res |-> decode(accounts[me], wire.bytes)]
    /\ UNCHANGED <<platform, probe, updater, accounts, pwString, edits, lockedAccount, lockedOf, storedBytes, tamper, unlockRes, wire, ui>>

\* the SharedContact a decoded result displays
Displayed(res) ==
    CASE res.err # "none" -> NoContact
      [] res.kind \in {"ReceivedMessage", "Signed"} -> res.sender
      [] res.kind = "SharedContact" -> res.contact
      [] OTHER -> NoContact

\* "Add to Contacts" under a decoded result: offered when the contact is
\* neither the account itself nor already in the list
AddDecoded(me, nickname) ==
    /\ edits < MaxEdits
    /\ decodeRes # Idle
    /\ decodeRes.me = me
    /\ LET c == Displayed(decodeRes.res) IN
       /\ c # NoContact
       /\ ~isAccount(c, accounts[me])
       /\ Len(accounts[me].contacts) < MaxContacts
       /\ \A i \in 1..Len(accounts[me].contacts) :
              ~SharedContact_eq(accounts[me].contacts[i].shared, c)
       /\ accounts' = [accounts EXCEPT ![me].contacts =
                          Append(@, [shared |-> c, nickname |-> nickname, note |-> <<>>])]
    /\ edits' = edits + 1
    /\ unlockRes' = Idle
    /\ UNCHANGED <<platform, probe, updater, pwString, lockedAccount, lockedOf, storedBytes, tamper, wire, decodeRes, ui>>

\* the delete button of the Contacts screen
RemoveContact(me, i) ==
    /\ edits < MaxEdits
    /\ i \in 1..Len(accounts[me].contacts)
    /\ accounts' = [accounts EXCEPT ![me].contacts =
                       SubSeq(@, 1, i - 1) \o SubSeq(@, i + 1, Len(@))]
    /\ edits' = edits + 1
    /\ unlockRes' = Idle
    /\ UNCHANGED <<platform, probe, updater, pwString, lockedAccount, lockedOf, storedBytes, tamper, wire, decodeRes, ui>>

InitCodec == InitVault

NextCodec ==
    \/ \E a \in Accounts, i \in 0..MaxContacts, content \in Contents, iv \in Ivs :
           Encrypt(a, i, content, iv)
    \/ \E a \in Accounts, content \in Contents : Sign(a, content)
    \/ \E a \in Accounts : Card(a)
    \/ \E me \in Accounts : Decode(me)
    \/ \E me \in Accounts : AddDecoded(me, <<98>>)
    \/ \E me \in Accounts, i \in 1..MaxContacts : RemoveContact(me, i)

SpecCodec == InitCodec /\ [][NextCodec]_vars

----------------------------------------------------------------------------
(* The wire: bytes reach the Decode screen changed or made up by others *)

\* the account at the other end
Peer == 2

\* an outsider with keys of their own, made outside the application
Mallory == createAccount(<<77>>, <<109>>, Salt(0), 60)

\* a P-384 key, as StoredPublicKey.new writes it
ForeignPublic(k) == <<4 + 2 + (k % 2)>> \o <<2 * k>> \o Rep(keyLen(1) - 1, 0)

ForeignKeyPair(k) ==
    [publicKey |-> ForeignPublic(k),
     privateKey |-> [pub |-> ForeignPublic(k), d |-> PrivScalar(KeyX(ForeignPublic(k)), k % 2)]]

\* the same outsider with the dh key pair on P-384
MalloryForeign == [Mallory EXCEPT !.dhKeyPair = ForeignKeyPair(120)]

Forgeries == {"foreignCurve", "badDeflate", "replacedSender", "stolenCard", "unknownTag"}

CardForgeries == {"stolenCard", "malloryCard", "foreignCard"}

ForgedBytes(f) ==
    CASE f = "foreignCurve" ->
             \* an encrypted message from a sender whose dh key is on P-384
             writeUint8(0) \o SharedContact_writeTo(SharedContact_ofAccount(MalloryForeign))
             \o writeLenBuffer(1, Rep(IvLen, 5)) \o writeLenBuffer(4, Rep(TagLen + 3, 1))
      [] f = "badDeflate" ->
             \* a correctly signed message whose compressed body is not a stream
             writeUint8(1) \o SharedContact_writeTo(SharedContact_ofAccount(Mallory))
             \o writeLenBuffer(1, EcdsaSign(Mallory.dsaPrivateKey, 0, <<1, 255>>)) \o <<1, 255>>
      [] f = "replacedSender" ->
             \* the peer's message to account 1 under the outsider's contact
             LET genuine == encryptMessage(accounts[Peer], SharedContact_ofAccount(accounts[1]),
                                           <<104, 105>>, Rep(IvLen, 5)).val
                 own == SharedContact_writeTo(SharedContact_ofAccount(accounts[Peer]))
             IN writeUint8(0) \o SharedContact_writeTo(SharedContact_ofAccount(Mallory))
                \o Drop(genuine, 1 + Len(own))
      [] f = "stolenCard" ->
             \* the peer's card with the outsider's dh key in it
             contactCard([SharedContact_ofAccount(accounts[Peer]) EXCEPT
                              !.dhPublicKey = Mallory.dhKeyPair.publicKey])
      [] f = "malloryCard" -> contactCard(SharedContact_ofAccount(Mallory))
      [] f = "foreignCard" -> contactCard(SharedContact_ofAccount(MalloryForeign))
      [] OTHER -> <<7>>

Forge(f) ==
    /\ wire' = Sent("forged", 0, NoContact, f, ForgedBytes(f))
    /\ tamper' = NoTamper
    /\ decodeRes' = Idle
    /\ unlockRes' = Idle
    /\ UNCHANGED <<platform, probe, updater, accounts, pwString, edits, lockedAccount, lockedOf, storedBytes, ui>>

\* the field of a genuine message that byte i (1-based) belongs to
WireRegion(w, i) ==
    LET c == SharedContact_ofAccount(accounts[w.from])
        dsaEnd == 2 + Len(c.dsaPublicKey)
        dhEnd == dsaEnd + Len(c.dhPublicKey)
        sigEnd == dhEnd + 1 + Len(c.signature)
        end == sigEnd + 1
    IN CASE i = 1 -> "tag"
         [] i = 2 -> "version"
         [] i <= dsaEnd -> "dsaPublicKey"
         [] i <= dhEnd -> "dhPublicKey"
         [] i = dhEnd + 1 -> "signatureLen"
         [] i <= sigEnd -> "contactSignature"
         [] i = end -> "signatureHash"
         [] w.kind = "encrypted" /\ i = end + 1 -> "ivLen"
         [] w.kind = "encrypted" /\ i <= end + 1 + IvLen -> "iv"
         [] w.kind = "encrypted" /\ i <= end + 1 + IvLen + 4 -> "ciphertextLen"
         [] w.kind = "encrypted" -> "ciphertext"
         [] w.kind = "signed" /\ i = end + 1 -> "messageSignatureLen"
         [] w.kind = "signed" /\ i <= end + 1 + w.bytes[end + 1] -> "messageSignature"
         [] OTHER -> "body"

\* someone changes one byte of a genuine message on its way
TamperWire(i, d) ==
    /\ wire # Idle
    /\ wire.kind # "forged"
    /\ tamper = NoTamper
    /\ i \in 1..Len(wire.bytes)
    /\ wire' = [wire EXCEPT !.bytes[i] = (@ + d) % 256]
    /\ tamper' = [region |-> WireRegion(wire, i), pos |-> i]
    /\ decodeRes' = Idle
    /\ unlockRes' = Idle
    /\ UNCHANGED <<platform, probe, updater, accounts, pwString, edits, lockedAccount, lockedOf, storedBytes, ui>>

WireLen == IF wire = Idle THEN 0 ELSE Len(wire.bytes)

\* accounts 1 and 2 hold each other's card
InitWire ==
    /\ ui = Idle
    /\ platform \in Platforms
    /\ probe = Idle
    /\ updater = Idle
    /\ accounts = [a \in Accounts |-> UsedAccount(a, IF a = Peer THEN 1 ELSE Peer)]
    /\ pwString = [a \in Accounts |-> <<112>>]
    /\ edits = 0
    /\ lockedAccount = NoAccount
    /\ lockedOf = NoAccount
    /\ storedBytes = <<>>
    /\ tamper = NoTamper
    /\ unlockRes = Idle
    /\ wire = Idle
    /\ decodeRes = Idle

NextWire ==
    \/ \E a \in {1, Peer}, i \in 0..1, iv \in Ivs : Encrypt(a, i, <<104, 105>>, iv)
    \/ \E content \in {<<104, 105>>, Rep(6, 97)} : Sign(Peer, content)
    \/ Card(Peer)
    \/ \E f \in Forgeries : Forge(f)
    \/ \E i \in 1..WireLen, d \in TamperDeltas : TamperWire(i, d)
    \/ Decode(1)

SpecWire == InitWire /\ [][NextWire]_vars

----------------------------------------------------------------------------
(* Contacts: cards, genuine or not, decoded, kept, locked away and read back *)

\* a card is changed on its way to an account that has not changed yet:
\* decoding a card reads nothing of the account
TamperCard(i, d) ==
    /\ edits = 0
    /\ lockedOf.account = accounts[1]
    /\ wire # Idle
    /\ wire.kind = "card"
    /\ TamperWire(i, d)

\* the updater locks the account when it differs from what is stored
Relock(a, iv) ==
    /\ lockedOf.account # accounts[a]
    /\ Lock(a, iv)

\* log out and in again: the Decode screen starts empty
Relogin(a, guess) ==
    /\ lockedOf.account = accounts[a]
    /\ Login(a, "stored", guess)
    /\ wire' = Idle
    /\ decodeRes' = Idle
    /\ tamper' = NoTamper

LoggedIn(a) ==
    [account |-> InitAccount(a), pw |-> <<112>>, id |-> a]

InitCards ==
    /\ ui = Idle
    /\ platform \in Platforms
    /\ probe = Idle
    /\ updater = Idle
    /\ accounts = [a \in Accounts |-> InitAccount(a)]
    /\ pwString = [a \in Accounts |-> <<112>>]
    /\ edits = 0
    /\ lockedOf = LoggedIn(1)
    /\ \E iv \in Ivs : lockedAccount = LockedAccount_lock(InitAccount(1), iv)
    /\ storedBytes = LockedAccount_writeTo(lockedAccount)
    /\ tamper = NoTamper
    /\ unlockRes = Idle
    /\ wire = Idle
    /\ decodeRes = Idle

NextCards ==
    \/ \E a \in Accounts \ {1} : Card(a)
    \/ \E content \in {<<104, 105>>} : Sign(Peer, content)
    \/ \E f \in CardForgeries : Forge(f)
    \/ \E i \in 1..WireLen, d \in TamperDeltas : TamperCard(i, d)
    \/ Decode(1)
    \/ AddDecoded(1, <<98>>)
    \/ \E i \in 1..MaxContacts : RemoveContact(1, i)
    \/ \E iv \in Ivs : Relock(1, iv)
    \/ \E guess \in Passwords : Relogin(1, guess)

SpecCards == InitCards /\ [][NextCards]_vars

----------------------------------------------------------------------------
(* Framing: messages that arrive cut short or followed by more bytes *)

\* the first n bytes of a genuine message arrive
Truncate(n) ==
    /\ wire # Idle
    /\ wire.kind \in {"encrypted", "signed", "card"}
    /\ tamper = NoTamper
    /\ n \in 0..(Len(wire.bytes) - 1)
    /\ wire' = [wire EXCEPT !.bytes = SubSeq(@, 1, n)]
    /\ tamper' = [region |-> "truncated", pos |-> n]
    /\ decodeRes' = Idle
    /\ unlockRes' = Idle
    /\ UNCHANGED <<platform, probe, updater, accounts, pwString, edits, lockedAccount, lockedOf, storedBytes, ui>>

TrailingBytes == {<<0>>, <<2, 255>>}

\* a genuine message arrives with more bytes after it
Trail(extra) ==
    /\ wire # Idle
    /\ wire.kind \in {"encrypted", "signed", "card"}
    /\ tamper = NoTamper
    /\ wire' = [wire EXCEPT !.bytes = @ \o extra]
    /\ tamper' = [region |-> "trailing", pos |-> Len(wire.bytes)]
    /\ decodeRes' = Idle
    /\ unlockRes' = Idle
    /\ UNCHANGED <<platform, probe, updater, accounts, pwString, edits, lockedAccount, lockedOf, storedBytes, ui>>

\* decode called on whatever arrived, the empty input included
DecodeCall(me) ==
    /\ wire # Idle
    /\ decodeRes = Idle
    /\ decodeRes' = [state |-> "done", me |-> me, contacts |-> accounts[me].contacts,
                     res |-> decode(accounts[me], wire.bytes)]
    /\ UNCHANGED <<platform, probe, updater, accounts, pwString, edits, lockedAccount, lockedOf, storedBytes, tamper, unlockRes, wire, ui>>

\* where the message body of a signed message starts (its sub-tag), 1-based
BodyStart(w) ==
    Len(signMessage(accounts[w.from], w.content)) - Len(writeMessage(w.content)) + 1

InitFraming == InitWire

NextFraming ==
    \/ \E a \in {1, Peer}, i \in 0..1, iv \in Ivs : Encrypt(a, i, <<104, 105>>, iv)
    \/ \E content \in {<<104, 105>>, Rep(6, 97)} : Sign(Peer, content)
    \/ Card(Peer)
    \/ \E n \in 0..WireLen : Truncate(n)
    \/ \E extra \in TrailingBytes : Trail(extra)
    \/ DecodeCall(1)

SpecFraming == InitFraming /\ [][NextFraming]_vars

----------------------------------------------------------------------------
(* db.ts: the account container *)

RECURSIVE writeAccounts(_, _)
writeAccounts(list, n) ==
    IF n = 0 THEN <<>> ELSE writeAccounts(list, n - 1) \o LockedAccount_writeTo(list[n])

Db_write(db) ==
    writeUint8(0)
    \o writeUint32(Len(db.accounts)) \o writeAccounts(db.accounts, Len(db.accounts))
    \o writeUint32(Len(db.accountBin)) \o writeAccounts(db.accountBin, Len(db.accountBin))
    \o writeUint8((IF db.keylogged THEN 2 ELSE 0) + (IF db.scraped THEN 1 ELSE 0))

\* the loops of read: n times LockedAccount.readFrom
RECURSIVE readAccounts(_, _)
readAccounts(r, n) ==
    IF n = 0 THEN Ok(<<>>, r)
    ELSE Then(LockedAccount_readFrom(r), LAMBDA a :
         IF a.err # "none" THEN a
         ELSE Then(readAccounts(a.rest, n - 1), LAMBDA more :
              IF more.err # "none" THEN more ELSE Ok(<<a.val>> \o more.val, more.rest)))

Db_read(r) ==
    Then(readUint8(r), LAMBDA tag :
    IF tag.err # "none" THEN tag
    ELSE IF tag.val # 0 THEN Fail("OutdatedError")
    ELSE Then(readUint32(tag.rest), LAMBDA accountsLen :
    IF accountsLen.err # "none" THEN accountsLen
    ELSE Then(readAccounts(accountsLen.rest, accountsLen.val), LAMBDA accs :
    IF accs.err # "none" THEN accs
    ELSE Then(readUint32(accs.rest), LAMBDA accountBinLen :
    IF accountBinLen.err # "none" THEN accountBinLen
    ELSE Then(readAccounts(accountBinLen.rest, accountBinLen.val), LAMBDA accountBin :
    IF accountBin.err # "none" THEN accountBin
    ELSE Then(readUint8(accountBin.rest), LAMBDA nextByte :
    IF nextByte.err # "none" THEN nextByte
    ELSE Ok([accounts |-> accs.val, accountBin |-> accountBin.val,
             keylogged |-> (nextByte.val \div 2) % 2 = 1,
             scraped |-> nextByte.val % 2 = 1], nextByte.rest)))))))

----------------------------------------------------------------------------
(* Tags: each serialized structure read back with one of its tags replaced *)

Structures ==
    {"container", "LockedAccount", "Password", "hasher", "AccountPublic", "privateBundle",
     "Contact", "SharedContact", "signatureHash", "curve",
     "encrypted", "signed", "card", "rawBody", "compressedBody"}

\* a serialization of each structure as the code writes it for account x
Sample(s, x) ==
    CASE s = "container" ->
             Db_write([accounts |-> <<LockedAccount_lock(x, Rep(IvLen, 5))>>,
                       accountBin |-> <<>>, keylogged |-> TRUE, scraped |-> FALSE])
      [] s = "LockedAccount" -> LockedAccount_writeTo(LockedAccount_lock(x, Rep(IvLen, 5)))
      [] s \in {"Password", "hasher"} -> Password_writeTo(x.password.locked)
      [] s = "AccountPublic" -> writeAccountPublic(x.publicData)
      [] s = "privateBundle" -> PrivateDataBuffer(x)
      [] s = "Contact" -> writeContact(x.contacts[1])
      [] s \in {"SharedContact", "signatureHash"} ->
             SharedContact_writeTo(SharedContact_ofAccount(x))
      [] s = "curve" -> x.dhKeyPair.publicKey
      [] s = "encrypted" -> encryptMessage(x, NoContact, <<104, 105>>, Rep(IvLen, 5)).val
      [] s = "signed" -> signMessage(x, <<104, 105>>)
      [] s = "card" -> contactCard(SharedContact_ofAccount(x))
      [] s = "rawBody" -> writeMessage(<<104, 105>>)
      [] OTHER -> writeMessage(Rep(6, 97))

\* where the tag sits in the sample, 1-based
TagAt(s, x) ==
    CASE s = "hasher" -> 1 + 1 + Len(x.password.locked.salt) + 4 + 1
      [] s = "signatureHash" -> Len(Sample(s, x))
      [] OTHER -> 1

\* byte values that carry a tag the reader does not know
Unrecognised(s) ==
    CASE s \in {"encrypted", "signed", "card", "signatureHash"} -> {3, 255}
      [] s \in {"rawBody", "compressedBody"} -> {2, 255}
      [] s = "curve" -> {12, 14, 255}
      [] OTHER -> {1, 255}

\* the private bundle is read by unlock, from inside the ciphertext
UnlockBundle(x, b) ==
    Then(LockedAccount_lock(x, Rep(IvLen, 5)), LAMBDA l :
    LockedAccount_unlock(
        [l EXCEPT !.encryptedData =
             AesGcmEncrypt(x.password.key, l.iv, l.publicDataBuffer, b)], <<112>>))

\* the reader of each structure
ReadSample(s, x, b) ==
    CASE s = "container" -> Db_read(b)
      [] s = "LockedAccount" -> LockedAccount_readFrom(b)
      [] s \in {"Password", "hasher"} -> Password_readFrom(b)
      [] s = "AccountPublic" -> readAccountPublic(b)
      [] s = "privateBundle" -> UnlockBundle(x, b)
      [] s = "Contact" -> readContact(b)
      [] s \in {"SharedContact", "signatureHash"} -> SharedContact_readFrom(b)
      [] s = "curve" -> StoredPublicKey_readFrom(b)
      [] s \in {"encrypted", "signed", "card"} -> decode(x, b)
      [] OTHER -> readMessage(b)

\* read structure s of account a with its tag set to v; cut: nothing
\* follows the tag
ReadTagged(s, a, v, cut) ==
    /\ probe = Idle
    /\ \E sample \in {Sample(s, accounts[a])} :
       \E at \in {TagAt(s, accounts[a])} :
       \E input \in {IF cut THEN SubSeq([sample EXCEPT ![at] = v], 1, at)
                     ELSE [sample EXCEPT ![at] = v]} :
           probe' = [state |-> "read", structure |-> s, account |-> a, tag |-> v,
                     written |-> sample[at], cut |-> cut,
                     err |-> ReadSample(s, accounts[a], input).err]
    /\ UNCHANGED <<platform, updater, accounts, pwString, edits, lockedAccount, lockedOf,
                   storedBytes, tamper, unlockRes, wire, decodeRes, ui>>

InitTags == InitWire

NextTags ==
    \E s \in Structures, a \in Accounts, cut \in BOOLEAN :
        \E v \in Unrecognised(s) \cup {Sample(s, accounts[a])[TagAt(s, accounts[a])]} :
            ReadTagged(s, a, v, cut)

SpecTags == InitTags /\ [][NextTags]_vars

----------------------------------------------------------------------------
(* The updater: updaterTask around LockedAccount.lock, run by the effect   *)
(* that watches the logged-in account                                      *)

\* lock up to its await: everything it reads of the account
LockRead(unlocked, iv) ==
    [password |-> unlocked.password,
     publicData |-> unlocked.publicData,
     publicDataBuffer |-> writeAccountPublic(unlocked.publicData),
     privateDataBuffer |-> PrivateDataBuffer(unlocked),
     iv |-> iv]

\* lock after its await that takes the Password record from the account as
\* it is by then
LockFinish_rereads(read, unlocked) ==
    [password |-> unlocked.password.locked,
     iv |-> read.iv,
     encryptedData |-> AesGcmEncrypt(read.password.key, read.iv, read.publicDataBuffer,
                                     read.privateDataBuffer),
     publicDataBuffer |-> read.publicDataBuffer,
     publicData |-> read.publicData]

\* lock from its await on; unlocked is the account as it is by then
LockFinish(read, unlocked) ==
    [password |-> read.password.locked,
     iv |-> read.iv,
     encryptedData |-> AesGcmEncrypt(read.password.key, read.iv, read.publicDataBuffer,
                                     read.privateDataBuffer),
     publicDataBuffer |-> read.publicDataBuffer,
     publicData |-> read.publicData]

\* an invocation of the wrapped function: the lock it started, and the
\* account as it was at the call
Invocation(unlocked, iv) == [read |-> LockRead(unlocked, iv), call |-> unlocked]

\* the function updaterTask returns, without its test of running
update_alwaysruns(u, a, unlocked, iv) ==
    [u EXCEPT !.running = TRUE, !.toProcess = 0,
              !.locks = Append(@, Invocation(unlocked, iv))]

\* the function updaterTask returns, up to the first await of its loop;
\* toProcess is 0 for null and otherwise the account (the store) to process
update(u, a, unlocked, iv) ==
    IF ~u.running
    THEN [u EXCEPT !.running = TRUE, !.toProcess = 0,
                   !.locks = Append(@, Invocation(unlocked, iv))]
    ELSE [u EXCEPT !.toProcess = a]

\* the loop of updaterTask after the await of invocation i
Resume(u, i, unlocked, iv) ==
    Then(SubSeq(u.locks, 1, i - 1) \o SubSeq(u.locks, i + 1, Len(u.locks)), LAMBDA rest :
    IF u.toProcess # 0
    THEN [u EXCEPT !.toProcess = 0, !.locks = Append(rest, Invocation(unlocked, iv))]
    ELSE [u EXCEPT !.running = FALSE, !.locks = rest])

\* a run of the effect on the logged-in account: it calls update, and it is
\* left subscribed to the account exactly when that call read the account,
\* that is when it started a lock
RunEffect(u, a, unlocked, iv) ==
    [update(u, a, unlocked, iv) EXCEPT !.tracked = ~u.running]

\* the changes the dashboard makes to the account
Changes(a) ==
    {[accounts[a] EXCEPT !.publicData.name = name] : name \in Names}
    \cup {[accounts[a] EXCEPT !.password = UnlockedPassword_new(new, Salt(a + edits + 1))] :
              new \in Passwords}
    \cup {[accounts[a] EXCEPT !.contacts =
               <<[shared |-> SharedContact_ofAccount(accounts[b]),
                  nickname |-> <<98>>, note |-> <<>>]>>] : b \in Accounts \ {a}}

\* the account changes; the effect runs again if it is subscribed
Change(a, new, iv) ==
    /\ updater # Idle
    /\ edits < MaxEdits
    /\ new # accounts[a]
    /\ accounts' = [accounts EXCEPT ![a] = new]
    /\ edits' = edits + 1
    /\ updater' = IF updater.tracked THEN RunEffect(updater, a, new, iv) ELSE updater
    /\ pwString' = [pwString EXCEPT ![a] =
                        IF new.password = accounts[a].password THEN @
                        ELSE CHOOSE p \in Passwords :
                                 new.password = UnlockedPassword_new(p, Salt(a + edits + 1))]
    /\ UNCHANGED <<platform, probe, lockedAccount, lockedOf, storedBytes, tamper,
                   unlockRes, wire, decodeRes, ui>>

\* the encryption of invocation i completes: setLocked, the store effect
\* writes the database, and the loop goes on
LockDone(a, i, iv) ==
    /\ updater # Idle
    /\ i \in 1..Len(updater.locks)
    /\ lockedAccount' = LockFinish(updater.locks[i].read, accounts[a])
    /\ lockedOf' = [account |-> updater.locks[i].call, pw |-> pwString[a], id |-> a]
    /\ storedBytes' = LockedAccount_writeTo(lockedAccount')
    /\ updater' = Resume(updater, i, accounts[a], iv)
    /\ UNCHANGED <<platform, probe, accounts, pwString, edits, tamper, unlockRes, wire,
                   decodeRes, ui>>

\* account 1 has just logged in: the effect ran and its lock is in flight
InitUpdater ==
    /\ ui = Idle
    /\ platform \in Platforms
    /\ probe = Idle
    /\ accounts = [a \in Accounts |-> InitAccount(a)]
    /\ pwString = [a \in Accounts |-> <<112>>]
    /\ edits = 0
    /\ lockedOf = LoggedIn(1)
    /\ \E iv \in Ivs :
           /\ lockedAccount = LockedAccount_lock(InitAccount(1), iv)
           /\ updater = RunEffect([running |-> FALSE, toProcess |-> 0, tracked |-> FALSE,
                                   locks |-> <<>>], 1, InitAccount(1), iv)
    /\ storedBytes = LockedAccount_writeTo(lockedAccount)
    /\ tamper = NoTamper
    /\ unlockRes = Idle
    /\ wire = Idle
    /\ decodeRes = Idle

NextUpdater ==
    \/ \E new \in Changes(1), iv \in Ivs : Change(1, new, iv)
    \/ \E i \in 1..MaxEdits + 1, iv \in Ivs : LockDone(1, i, iv)

SpecUpdater == InitUpdater /\ [][NextUpdater]_vars

----------------------------------------------------------------------------
(* serde.ts on its own: each read called on given bytes, each write read back *)

\* the bytes a reader is constructed on: every sequence of up to four of a
\* few byte values, and length prefixes followed by too few, just enough
\* and too many bytes
SerdeBytes == {0, 1, 2, 255}

SerdeInputs ==
    UNION {[1..n -> SerdeBytes] : n \in 0..4}
    \cup {<<255>> \o Rep(254, 5), <<255>> \o Rep(255, 5), <<255>> \o Rep(256, 5),
          <<1, 0>> \o Rep(255, 5), <<1, 0>> \o Rep(256, 5),
          <<0, 0, 1, 0>> \o Rep(255, 5), <<0, 0, 1, 0>> \o Rep(257, 5),
          <<3, 239, 187, 191>>, <<0, 2, 195, 169, 7>>, <<2, 195>>}

Widths == {1, 2, 4}

\* values the integer writers are called with
IntSamples(width) ==
    CASE width = 1 -> {0, 1, 127, 128, 255}
      [] width = 2 -> {0, 5, 255, 256, 63195, 65535}
      [] OTHER -> {0, 63195, 65536, 16777216, 2147483647}

\* strings the string writer is called with
StringSamples == {<<>>, <<104, 105>>, <<233>>, <<8364, 49>>, <<65279>>, <<65279, 104, 105>>, <<104, 65279>>}

readUint(r, width) == readLen(r, width)

writeUint(width, n) ==
    CASE width = 1 -> writeUint8(n)
      [] width = 2 -> writeUint16(n)
      [] OTHER -> writeUint32(n)

\* one of the reads, called on a reader over `input`
SerdeRead(op, width, input) ==
    CASE op = "uint" -> readUint(input, width)
      [] op = "buffer" -> readLenBuffer(input, width)
      [] OTHER -> readLenString(input, width)

\* numbers in the model end at 2^31 - 1: a four-byte number is read only
\* when its first byte is below 128
Holds32(width, input) == IF width < 4 \/ Len(input) < 4 THEN TRUE ELSE input[1] < 128

ReadCall(op, width) ==
    /\ probe = Idle
    /\ Holds32(width, storedBytes)
    /\ probe' = [state |-> "serde", op |-> op, width |-> width, input |-> storedBytes,
                 out |-> SerdeRead(op, width, storedBytes)]
    /\ UNCHANGED <<platform, updater, accounts, pwString, edits, lockedAccount, lockedOf,
                   storedBytes, tamper, unlockRes, wire, decodeRes, ui>>

\* the roundtrip helper of the tests: build the bytes with the writer, read
\* them with the matching reader
RoundTrip(op, width, value) ==
    /\ probe = Idle
    /\ \E written \in {CASE op = "uint" -> writeUint(width, value)
                         [] op = "buffer" -> writeLenBuffer(width, value)
                         [] OTHER -> writeLenString(width, value)} :
           probe' = [state |-> "roundtrip", op |-> op, width |-> width, value |-> value,
                     written |-> written, out |-> SerdeRead(op, width, written)]
    /\ UNCHANGED <<platform, updater, accounts, pwString, edits, lockedAccount, lockedOf,
                   storedBytes, tamper, unlockRes, wire, decodeRes, ui>>

InitSerde ==
    /\ ui = Idle
    /\ platform \in Platforms
    /\ probe = Idle
    /\ updater = Idle
    /\ accounts = [a \in Accounts |-> InitAccount(a)]
    /\ pwString = [a \in Accounts |-> <<112>>]
    /\ edits = 0
    /\ lockedAccount = NoAccount
    /\ lockedOf = NoAccount
    /\ storedBytes \in SerdeInputs
    /\ tamper = NoTamper
    /\ unlockRes = Idle
    /\ wire = Idle
    /\ decodeRes = Idle

NextSerde ==
    \/ \E op \in {"uint", "buffer", "string"}, width \in Widths : ReadCall(op, width)
    \/ \E width \in Widths : \E n \in IntSamples(width) : RoundTrip("uint", width, n)
    \/ \E width \in Widths : RoundTrip("buffer", width, storedBytes)
    \/ \E width \in Widths, s \in StringSamples : RoundTrip("string", width, s)

SpecSerde == InitSerde /\ [][NextSerde]_vars

----------------------------------------------------------------------------
(* A stored account read from bytes and written again *)

\* an account whose name begins with a byte order mark
MarkedAccount == [InitAccount(1) EXCEPT !.publicData.name = <<65279, 65>>]

StoredAccounts == {InitAccount(1), UsedAccount(1, 2), MarkedAccount}

\* how one byte of the input is changed, modulo 256: any byte by the
\* first, a byte of the public data also by the second
StoredDeltas == <<1, 128>>

\* bytes LockedAccount.readFrom is called on: accounts as lock and writeTo
\* leave them, the same with one byte changed, cut short, or followed
\* by more bytes
StoredInputs ==
    UNION {Then(LockedAccount_writeTo(LockedAccount_lock(acc, Rep(IvLen, 5))), LAMBDA base :
              {base}
              \cup {[base EXCEPT ![i] = (@ + StoredDeltas[1]) % 256] : i \in 1..Len(base)}
              \cup {[base EXCEPT ![i] = (@ + StoredDeltas[2]) % 256] :
                        i \in (Len(base) - Len(writeAccountPublic(acc.publicData)) + 1)..Len(base)}
              \cup {Take(base, n) : n \in {0, 1, 70, Len(base) - 1}}
              \cup {base \o extra : extra \in TrailingBytes})
           : acc \in StoredAccounts}

\* readFrom on the bytes, then writeTo on the account it returned
Reread ==
    /\ probe = Idle
    /\ \E out \in {LockedAccount_readFrom(storedBytes)} :
           probe' = [state |-> "stored", input |-> storedBytes, err |-> out.err, rest |-> out.rest,
                     written |-> IF out.err = "none" THEN LockedAccount_writeTo(out.val) ELSE <<>>,
                     publicDataBuffer |-> IF out.err = "none" THEN out.val.publicDataBuffer ELSE <<>>,
                     reserialized |-> IF out.err = "none" THEN writeAccountPublic(out.val.publicData)
                                      ELSE <<>>]
    /\ UNCHANGED <<platform, updater, accounts, pwString, edits, lockedAccount, lockedOf,
                   storedBytes, tamper, unlockRes, wire, decodeRes, ui>>

InitStored ==
    /\ ui = Idle
    /\ platform \in Platforms
    /\ probe = Idle
    /\ updater = Idle
    /\ accounts = [a \in Accounts |-> InitAccount(a)]
    /\ pwString = [a \in Accounts |-> <<112>>]
    /\ edits = 0
    /\ lockedAccount = NoAccount
    /\ lockedOf = NoAccount
    /\ storedBytes \in StoredInputs
    /\ tamper = NoTamper
    /\ unlockRes = Idle
    /\ wire = Idle
    /\ decodeRes = Idle

NextStored == Reread

SpecStored == InitStored /\ [][NextStored]_vars

----------------------------------------------------------------------------
(* The message body on its own: writeMessage, then readMessage *)

BodyChars == {97, 98, 233, 65279}

\* texts written as a body: every text of up to four of a few characters,
\* and runs long enough for the compressed form to win
BodyTexts ==
    UNION {[1..n -> BodyChars] : n \in 0..4}
    \cup {Rep(n, 97) : n \in 5..8}
    \cup {<<65279>> \o Rep(8, 97), Rep(3, 233), Rep(4, 97) \o Rep(4, 98)}

\* writeMessage on the text, then readMessage on what it wrote and on
\* each of the two representations
WriteRead(content) ==
    /\ probe = Idle
    /\ \E bytes \in {TextEncode(content)} : \E compressed \in {deflateRaw(bytes)} :
       \E written \in {writeMessage(content)} :
           probe' = [state |-> "body", content |-> content, bytes |-> bytes,
                     compressed |-> compressed, written |-> written,
                     out |-> readMessage(written),
                     outRaw |-> readMessage(writeUint8(0) \o bytes),
                     outCompressed |-> readMessage(writeUint8(1) \o compressed)]
    /\ UNCHANGED <<platform, updater, accounts, pwString, edits, lockedAccount, lockedOf,
                   storedBytes, tamper, unlockRes, wire, decodeRes, ui>>

InitBody == InitVault

NextBody == \E content \in BodyTexts : WriteRead(content)

SpecBody == InitBody /\ [][NextBody]_vars

----------------------------------------------------------------------------
(* StoredPublicKey.readFrom on its own *)

\* first bytes: the curve in the upper six bits (three known curves, two
\* unknown ones), the point format in the lower two
KeyHeads == {4 * curve + format : curve \in {0, 1, 2, 3, 63}, format \in 0..3}

\* x coordinates: one the import accepts, one it rejects
KeyFill == {0, 1}

\* bytes a public key is read from: too few for the curve, exactly
\* enough, and more than enough
KeyInputs ==
    {<<>>}
    \cup {<<head>> \o <<fill>> \o Rep(n - 1, 0) :
              head \in KeyHeads, fill \in KeyFill,
              n \in {1, keyLen(0) - 1, keyLen(0), keyLen(1), keyLen(2), keyLen(2) + 2}}
    \cup {<<head>> : head \in KeyHeads}

ReadKey ==
    /\ probe = Idle
    /\ probe' = [state |-> "key", input |-> storedBytes,
                 out |-> StoredPublicKey_readFrom(storedBytes)]
    /\ UNCHANGED <<platform, updater, accounts, pwString, edits, lockedAccount, lockedOf,
                   storedBytes, tamper, unlockRes, wire, decodeRes, ui>>

InitKeys ==
    /\ ui = Idle
    /\ platform \in Platforms
    /\ probe = Idle
    /\ updater = Idle
    /\ accounts = [a \in Accounts |-> InitAccount(a)]
    /\ pwString = [a \in Accounts |-> <<112>>]
    /\ edits = 0
    /\ lockedAccount = NoAccount
    /\ lockedOf = NoAccount
    /\ storedBytes \in KeyInputs
    /\ tamper = NoTamper
    /\ unlockRes = Idle
    /\ wire = Idle
    /\ decodeRes = Idle

NextKeys == ReadKey

SpecKeys == InitKeys /\ [][NextKeys]_vars

----------------------------------------------------------------------------
(* AccountPublic on its own: written as lock writes it, read as readFrom reads it *)

\* lengths of the display names written, in UTF-8 bytes
NameLens == (0..40) \cup {254, 255, 256, 257, 300}

PublicNames == {Rep(n, 65) : n \in NameLens} \cup {<<233, 66>>, <<8364>>}

PublicKeys == {GenPublic(k) : k \in 1..3}

WritePublic(name, key) ==
    /\ probe = Idle
    /\ \E written \in {writeAccountPublic([name |-> name, dsaPublicKey |-> key])} :
           probe' = [state |-> "public", name |-> name, key |-> key, written |-> written,
                     out |-> readAccountPublic(written)]
    /\ UNCHANGED <<platform, updater, accounts, pwString, edits, lockedAccount, lockedOf,
                   storedBytes, tamper, unlockRes, wire, decodeRes, ui>>

InitPublic == InitVault

NextPublic == \E name \in PublicNames, key \in PublicKeys : WritePublic(name, key)

SpecPublic == InitPublic /\ [][NextPublic]_vars

----------------------------------------------------------------------------
(* The account container written and read back *)

\* an account whose display name is LongNick letters long
LongNamedAccount == [InitAccount(2) EXCEPT !.publicData.name = Rep(LongNick, 65)]

\* LockedAccounts a container holds: each the lock of an account
LockedSamples ==
    {LockedAccount_lock(acc, Rep(IvLen, 5)) :
        acc \in {InitAccount(1), InitAccount(2), UsedAccount(1, 2), LongNamedAccount}}

\* version tags a container is read with: the one written, and others
ContainerTags == {0, 1, 255}

Containers ==
    [accounts : UNION {[1..n -> LockedSamples] : n \in 0..2},
     accountBin : UNION {[1..n -> LockedSamples] : n \in 0..1},
     keylogged : BOOLEAN, scraped : BOOLEAN]

\* the bytes of each LockedAccount of a list
ListBytes(list) == [i \in 1..Len(list) |-> LockedAccount_writeTo(list[i])]

\* write on the container, then read on the bytes, the version tag
\* replaced by `tag`
StoreLoad(db, tag) ==
    /\ probe = Idle
    /\ \E written \in {Db_write(db)} : \E out \in {Db_read(<<tag>> \o Drop(written, 1))} :
           probe' = [state |-> "db", tag |-> tag,
                     accounts |-> ListBytes(db.accounts), accountBin |-> ListBytes(db.accountBin),
                     keylogged |-> db.keylogged, scraped |-> db.scraped,
                     flags |-> written[Len(written)], versionWritten |-> written[1],
                     err |-> out.err, rest |-> out.rest,
                     out |-> IF out.err # "none" THEN NoAccount
                             ELSE [accounts |-> ListBytes(out.val.accounts),
                                   accountBin |-> ListBytes(out.val.accountBin),
                                   keylogged |-> out.val.keylogged, scraped |-> out.val.scraped]]
    /\ UNCHANGED <<platform, updater, accounts, pwString, edits, lockedAccount, lockedOf,
                   storedBytes, tamper, unlockRes, wire, decodeRes, ui>>

InitContainer == InitVault

NextContainer == \E db \in Containers, tag \in ContainerTags : StoreLoad(db, tag)

SpecContainer == InitContainer /\ [][NextContainer]_vars

----------------------------------------------------------------------------
(* decode while the contact list is edited: the call and its completion *)

\* a second identity whose card carries the peer's dh public key under a
\* signature of its own
Twin == [createAccount(<<84>>, <<116>>, Salt(0), 61) EXCEPT
            !.dhKeyPair = InitAccount(Peer).dhKeyPair]

ContactOf(account, nickname) ==
    [shared |-> SharedContact_ofAccount(account), nickname |-> nickname, note |-> <<>>]

\* contact lists of the account that decodes: every list without
\* repetition of the peer, the twin and the outsider, and two that hold
\* a contact whose dh key is on another curve
ContactPool == {ContactOf(InitAccount(Peer), <<98>>), ContactOf(Twin, <<116>>),
                ContactOf(Mallory, <<109>>)}

ContactLists ==
    {l \in UNION {[1..n -> ContactPool] : n \in 0..3} :
        \A i, j \in 1..Len(l) : l[i] = l[j] => i = j}
    \cup {<<ContactOf(MalloryForeign, <<102>>), ContactOf(InitAccount(Peer), <<98>>)>>,
          <<ContactOf(InitAccount(Peer), <<98>>), ContactOf(MalloryForeign, <<102>>)>>}

\* what decode reads of `me` before its first await
Capture(me) ==
    [dhKeyPair |-> me.dhKeyPair, publicData |-> me.publicData, contacts |-> me.contacts]

\* the contact list the loop runs over, read from the account as it is now
ContactsTried_live(captured, current) == current.contacts

\* the contact list the loop runs over: the copy made at the call
ContactsTried(captured, current) == captured.contacts

\* decode is called on the bytes on the wire and suspends at its first await
DecodeStart(me) ==
    /\ wire # Idle
    /\ Len(wire.bytes) > 0
    /\ decodeRes = Idle
    /\ decodeRes' = [state |-> "pending", me |-> me, bytes |-> wire.bytes,
                     calledWith |-> Capture(accounts[me])]
    /\ UNCHANGED <<platform, probe, updater, accounts, pwString, edits, lockedAccount, lockedOf,
                   storedBytes, tamper, unlockRes, wire, ui>>

\* the Contacts screen while decode is pending: delete a contact, rename
\* one, drag the first to the end, add one
EditedContacts(contacts) ==
    {SubSeq(contacts, 1, i - 1) \o SubSeq(contacts, i + 1, Len(contacts)) : i \in 1..Len(contacts)}
    \cup {[contacts EXCEPT ![i].nickname = <<120>>] : i \in 1..Len(contacts)}
    \cup {SubSeq(contacts, 2, Len(contacts)) \o <<contacts[k]>> :
              k \in IF Len(contacts) >= 2 THEN {1} ELSE {}}
    \cup {<<ContactOf(InitAccount(Peer), <<121>>)>> \o contacts}

EditContacts(me, new) ==
    /\ decodeRes # Idle
    /\ decodeRes.state = "pending"
    /\ edits < MaxPendingEdits
    /\ new # accounts[me].contacts
    /\ accounts' = [accounts EXCEPT ![me].contacts = new]
    /\ edits' = edits + 1
    /\ UNCHANGED <<platform, probe, updater, pwString, lockedAccount, lockedOf, storedBytes,
                   tamper, unlockRes, wire, decodeRes, ui>>

\* the pending decode runs to its end
DecodeFinish(me) ==
    /\ decodeRes # Idle
    /\ decodeRes.state = "pending"
    /\ decodeRes.me = me
    /\ \E captured \in {decodeRes.calledWith} :
           decodeRes' = [state |-> "done", me |-> me, contacts |-> captured.contacts,
                         bytes |-> decodeRes.bytes, calledWith |-> captured,
                         res |-> decode([captured EXCEPT
                                            !.contacts = ContactsTried(captured, accounts[me])],
                                        decodeRes.bytes)]
    /\ UNCHANGED <<platform, probe, updater, accounts, pwString, edits, lockedAccount, lockedOf,
                   storedBytes, tamper, unlockRes, wire, ui>>

InitPending ==
    /\ ui = Idle
    /\ platform \in Platforms
    /\ probe = Idle
    /\ updater = Idle
    /\ \E list \in ContactLists :
           accounts = [a \in Accounts |-> IF a = Peer THEN UsedAccount(Peer, 1)
                                          ELSE [InitAccount(a) EXCEPT !.contacts = list]]
    /\ pwString = [a \in Accounts |-> <<112>>]
    /\ edits = 0
    /\ lockedAccount = NoAccount
    /\ lockedOf = NoAccount
    /\ storedBytes = <<>>
    /\ tamper = NoTamper
    /\ unlockRes = Idle
    /\ wire = Idle
    /\ decodeRes = Idle

NextPending ==
    \/ \E i \in 1..3, iv \in Ivs : wire = Idle /\ Encrypt(1, i, <<104, 105>>, iv)
    \/ \E content \in Contents, iv \in Ivs : wire = Idle /\ Encrypt(1, 0, content, iv)
    \/ \E i \in 0..1, iv \in Ivs : wire = Idle /\ Encrypt(Peer, i, <<104, 105>>, iv)
    \/ DecodeStart(1)
    \/ \E new \in EditedContacts(accounts[1].contacts) : EditContacts(1, new)
    \/ DecodeFinish(1)

SpecPending == InitPending /\ [][NextPending]_vars

----------------------------------------------------------------------------
(* Signed messages whose sender's card states each of the hash algorithms *)

\* the card of an account with its dh key signed under the hash it states
CardUnder(account, hash) ==
    [SharedContact_ofAccount(account) EXCEPT
        !.signature = EcdsaSign(account.dsaPrivateKey, hash, account.dhKeyPair.publicKey),
        !.signatureHash = hash]

\* the layout signMessage writes, the body signed under bodyHash
signMessageUnder(me, cardHash, bodyHash, content) ==
    Then(writeMessage(content), LAMBDA toSign :
    writeUint8(1) \o SharedContact_writeTo(CardUnder(me, cardHash))
    \o writeLenBuffer(1, EcdsaSign(me.dsaPrivateKey, bodyHash, toSign)) \o toSign)

\* a signed message arrives from a sender whose card states cardHash
SignUnder(a, cardHash, bodyHash, content) ==
    /\ wire = Idle
    /\ wire' = Sent("signed", a, NoContact, content,
                    signMessageUnder(accounts[a], cardHash, bodyHash, content))
    /\ tamper' = NoTamper
    /\ decodeRes' = Idle
    /\ unlockRes' = Idle
    /\ UNCHANGED <<platform, probe, updater, accounts, pwString, edits, lockedAccount, lockedOf, storedBytes, ui>>

InitSigned == InitWire

NextSigned ==
    \/ \E a \in {1, Peer}, cardHash \in HashTags, bodyHash \in HashTags, content \in Contents :
           SignUnder(a, cardHash, bodyHash, content)
    \/ Decode(1)

SpecSigned == InitSigned /\ [][NextSigned]_vars

----------------------------------------------------------------------------
(* The updater when the wrapped function rejects *)

\* the loop of updaterTask left through a finally that clears running
Reject_finally(u, i) ==
    [u EXCEPT !.running = FALSE,
              !.locks = SubSeq(u.locks, 1, i - 1) \o SubSeq(u.locks, i + 1, Len(u.locks))]

\* the loop of updaterTask when the await of invocation i throws: the async
\* function ends there, and running = false is not reached
Reject(u, i) ==
    [u EXCEPT !.locks = SubSeq(u.locks, 1, i - 1) \o SubSeq(u.locks, i + 1, Len(u.locks))]

\* the encryption of invocation i rejects: no setLocked, nothing stored
LockRejects(a, i) ==
    /\ updater # Idle
    /\ probe = Idle
    /\ i \in 1..Len(updater.locks)
    /\ updater' = Reject(updater, i)
    /\ probe' = [state |-> "rejected", edits |-> edits, locked |-> lockedAccount,
                 stored |-> storedBytes]
    /\ UNCHANGED <<platform, accounts, pwString, edits, lockedAccount, lockedOf,
                   storedBytes, tamper, unlockRes, wire, decodeRes, ui>>

InitRejecting == InitUpdater

NextRejecting ==
    \/ \E new \in Changes(1), iv \in Ivs : Change(1, new, iv)
    \/ \E i \in 1..MaxEdits + 1, iv \in Ivs : LockDone(1, i, iv)
    \/ \E i \in 1..MaxEdits + 1 : LockRejects(1, i)

SpecRejecting == InitRejecting /\ [][NextRejecting]_vars

----------------------------------------------------------------------------
(* The accounts screen: the accounts list and the account bin *)

\* LockedAccount[eqSymbol]: equality by dsa public key
LockedAccount_eq(a, b) == a.publicData.dsaPublicKey = b.publicData.dsaPublicKey

\* Array.prototype.findIndex, counted from 1, 0 for -1
findIndex(array, Test(_)) ==
    IF \E i \in 1..Len(array) : Test(array[i])
    THEN CHOOSE i \in 1..Len(array) : Test(array[i]) /\ \A j \in 1..i - 1 : ~Test(array[j])
    ELSE 0

\* the accounts the exported data on hand belongs to, in two versions each
Exportable == {InitAccount(a) : a \in Accounts}
              \cup {UsedAccount(a, IF a = Peer THEN 1 ELSE Peer) : a \in Accounts}

\* what is pasted into the import form: exported accounts, and one cut short
ImportedData ==
    {LockedAccount_writeTo(LockedAccount_lock(account, iv)) : account \in Exportable, iv \in Ivs}
    \cup {<<0, 0>>}

\* arrayRemove of the object at index i; every object is in its list once,
\* so removing what is identical to it removes that entry alone
arrayRemove(array, i) == SubSeq(array, 1, i - 1) \o SubSeq(array, i + 1, Len(array))

\* ReactiveAccount.new
ReactiveAccount_new(account) == [locked |-> account]

\* what is selected: nothing, a page, or the entry at an index of a list
NoSelection == [kind |-> "null", index |-> 0]

Page(kind) == [kind |-> kind, index |-> 0]

Entry(kind, index) == [kind |-> kind, index |-> index]

\* the import form's operation that never looks for the account
operation_alwaysimport(accounts_, accountBin, account_) ==
    [kind |-> "Import", index |-> 0]

\* ImportAccount's operation memo
operation(accounts_, accountBin, account_) ==
    Then(findIndex(accounts_, LAMBDA a : LockedAccount_eq(a.locked, account_)),
         LAMBDA accountsIndex :
    IF accountsIndex # 0 THEN [kind |-> "Replace", index |-> accountsIndex]
    ELSE Then(findIndex(accountBin, LAMBDA a : LockedAccount_eq(a, account_)),
              LAMBDA binIndex :
    IF binIndex # 0 THEN [kind |-> "Restore", index |-> binIndex]
    ELSE [kind |-> "Import", index |-> 0]))

\* the screen after an operation; last records it and the number of accounts
\* held before it
Screen(u, op, accounts_, accountBin, selected) ==
    [u EXCEPT !.accounts = accounts_, !.accountBin = accountBin, !.selected = selected,
              !.last = [op |-> op, held |-> Len(u.accounts) + Len(u.accountBin)]]

\* a click on an entry of a list or on one of the page buttons
Select(selected) ==
    /\ ui # Idle
    /\ \/ selected.kind \in {"Create", "Import"}
       \/ selected.kind = "account" /\ selected.index \in 1..Len(ui.accounts)
       \/ selected.kind = "bin" /\ selected.index \in 1..Len(ui.accountBin)
    /\ ui' = [ui EXCEPT !.selected = IF ui.selected = selected THEN NoSelection ELSE selected]
    /\ UNCHANGED <<platform, accounts, pwString, edits, lockedAccount, lockedOf, storedBytes,
                   tamper, unlockRes, wire, decodeRes, probe, updater>>

\* Delete Account
DeleteAccount ==
    /\ ui # Idle
    /\ ui.selected.kind = "account"
    /\ ui' = Screen(ui, "delete", arrayRemove(ui.accounts, ui.selected.index),
                    Append(ui.accountBin, ui.accounts[ui.selected.index].locked), NoSelection)
    /\ UNCHANGED <<platform, accounts, pwString, edits, lockedAccount, lockedOf, storedBytes,
                   tamper, unlockRes, wire, decodeRes, probe, updater>>

\* Restore account
RestoreAccount ==
    /\ ui # Idle
    /\ ui.selected.kind = "bin"
    /\ ui' = Screen(ui, "restore",
                    Append(ui.accounts, ReactiveAccount_new(ui.accountBin[ui.selected.index])),
                    arrayRemove(ui.accountBin, ui.selected.index),
                    Entry("account", Len(ui.accounts) + 1))
    /\ UNCHANGED <<platform, accounts, pwString, edits, lockedAccount, lockedOf, storedBytes,
                   tamper, unlockRes, wire, decodeRes, probe, updater>>

\* Permanently delete account
PermanentlyDelete ==
    /\ ui # Idle
    /\ ui.selected.kind = "bin"
    /\ ui' = Screen(ui, "purge", ui.accounts, arrayRemove(ui.accountBin, ui.selected.index),
                    NoSelection)
    /\ UNCHANGED <<platform, accounts, pwString, edits, lockedAccount, lockedOf, storedBytes,
                   tamper, unlockRes, wire, decodeRes, probe, updater>>

\* the create form is submitted: createAccount and lock are started
CreateSubmit(name, passwordString) ==
    /\ ui # Idle
    /\ ui.selected.kind = "Create"
    /\ ui.created < MaxCreated
    /\ ui' = [ui EXCEPT !.created = @ + 1,
                        !.creating = Append(@, [name |-> name, password |-> passwordString,
                                                k |-> ui.created + 1])]
    /\ UNCHANGED <<platform, accounts, pwString, edits, lockedAccount, lockedOf, storedBytes,
                   tamper, unlockRes, wire, decodeRes, probe, updater>>

\* onCreated after its awaits: the account made is appended and selected
Created(n, iv) ==
    /\ ui # Idle
    /\ n \in 1..Len(ui.creating)
    /\ \E inputs \in {ui.creating[n]} :
       \E locked \in {LockedAccount_lock(createAccount(inputs.name, inputs.password,
                                                       Salt(NumAccounts + inputs.k),
                                                       NumAccounts + inputs.k), iv)} :
           ui' = [Screen(ui, "create", Append(ui.accounts, ReactiveAccount_new(locked)),
                         ui.accountBin, Entry("account", Len(ui.accounts) + 1))
                  EXCEPT !.creating = arrayRemove(@, n)]
    /\ UNCHANGED <<platform, accounts, pwString, edits, lockedAccount, lockedOf, storedBytes,
                   tamper, unlockRes, wire, decodeRes, probe, updater>>

\* the import form is submitted with data pasted into it
ImportSubmit(data) ==
    /\ ui # Idle
    /\ ui.selected.kind = "Import"
    /\ \E account_ \in {LockedAccount_readFrom(data)} :
       IF account_.err # "none" \/ account_.rest # <<>>
       THEN ui' = [ui EXCEPT !.last = [op |-> "none", held |-> Len(ui.accounts)
                                                               + Len(ui.accountBin)]]
       ELSE \E op \in {operation(ui.accounts, ui.accountBin, account_.val)} :
                ui' = CASE op.kind = "Replace" ->
                               Screen(ui, "replace",
                                      [ui.accounts EXCEPT ![op.index].locked = account_.val],
                                      ui.accountBin, Entry("account", op.index))
                        [] op.kind = "Restore" ->
                               Screen(ui, "restoreReplace",
                                      Append(ui.accounts, ReactiveAccount_new(account_.val)),
                                      arrayRemove(ui.accountBin, op.index),
                                      Entry("account", Len(ui.accounts) + 1))
                        [] OTHER ->
                               Screen(ui, "import",
                                      Append(ui.accounts, ReactiveAccount_new(account_.val)),
                                      ui.accountBin, Entry("account", Len(ui.accounts) + 1))
    /\ UNCHANGED <<platform, accounts, pwString, edits, lockedAccount, lockedOf, storedBytes,
                   tamper, unlockRes, wire, decodeRes, probe, updater>>

\* the accounts screen of a database that holds each account in the list, in
\* the bin or not at all
InitAccounts ==
    /\ platform \in Platforms
    /\ probe = Idle
    /\ updater = Idle
    /\ accounts = [a \in Accounts |-> InitAccount(a)]
    /\ pwString = [a \in Accounts |-> <<112>>]
    /\ edits = 0
    /\ lockedAccount = NoAccount
    /\ lockedOf = NoAccount
    /\ storedBytes = <<>>
    /\ tamper = NoTamper
    /\ unlockRes = Idle
    /\ wire = Idle
    /\ decodeRes = Idle
    /\ \E place \in [Accounts -> {"accounts", "accountBin", "none"}], iv \in Ivs :
       \E listed \in {SelectSeq([a \in Accounts |-> a], LAMBDA a : place[a] = "accounts")} :
       \E binned \in {SelectSeq([a \in Accounts |-> a], LAMBDA a : place[a] = "accountBin")} :
           ui = [accounts |-> [i \in 1..Len(listed) |->
                                   ReactiveAccount_new(
                                       LockedAccount_lock(InitAccount(listed[i]), iv))],
                 accountBin |-> [i \in 1..Len(binned) |->
                                     LockedAccount_lock(InitAccount(binned[i]), iv)],
                 selected |-> NoSelection,
                 created |-> 0,
                 creating |-> <<>>,
                 last |-> [op |-> "none", held |-> Len(listed) + Len(binned)]]

NextAccounts ==
    \/ \E kind \in {"Create", "Import"} : Select(Page(kind))
    \/ \E kind \in {"account", "bin"}, index \in 1..NumAccounts + MaxCreated :
           Select(Entry(kind, index))
    \/ DeleteAccount
    \/ RestoreAccount
    \/ PermanentlyDelete
    \/ \E name \in Names : CreateSubmit(name, <<112>>)
    \/ \E n \in 1..MaxCreated + 1, iv \in Ivs : Created(n, iv)
    \/ \E data \in ImportedData : ImportSubmit(data)

SpecAccounts == InitAccounts /\ [][NextAccounts]_vars

----------------------------------------------------------------------------
(* OrderableList: a list reordered by dragging one of its items *)

\* Array.prototype.copyWithin on indices counted from 0, as the handler
\* calls it: 0 <= target, 0 <= start <= end <= length
copyWithin(list, target, start, end) ==
    [k \in 1..Len(list) |->
        IF k - 1 >= target /\ k - 1 < target + Min(end - start, Len(list) - target)
        THEN list[start + (k - 1 - target) + 1]
        ELSE list[k]]

\* the callback given to setList that exchanges the two items
Reordered_swap(oldList, oldDragging, oldI) ==
    [oldList EXCEPT ![oldDragging + 1] = oldList[oldI + 1],
                    ![oldI + 1] = oldList[oldDragging + 1]]

\* the callback ondragenter gives to setList; indices are counted from 0
Reordered(oldList, oldDragging, oldI) ==
    \* list[oldI] = dragged, after the items between have been shifted
    [(IF oldDragging < oldI
      THEN copyWithin(oldList, oldDragging, oldDragging + 1, oldI + 1)
      ELSE copyWithin(oldList, oldI + 1, oldI, oldDragging))
     EXCEPT ![oldI + 1] = oldList[oldDragging + 1]]

\* dragging() === null
NotDragging == -1

\* onDragStart of the handle of the item at index i
DragStart(i) ==
    /\ ui # Idle
    /\ ui.dragging = NotDragging
    /\ i \in 0..Len(ui.list) - 1
    /\ ui' = [ui EXCEPT !.dragging = i, !.dragged = ui.list[i + 1],
                        !.last = [op |-> "start", from |-> i, to |-> i, list |-> ui.list]]
    /\ UNCHANGED <<platform, accounts, pwString, edits, lockedAccount, lockedOf, storedBytes,
                   tamper, unlockRes, wire, decodeRes, probe, updater>>

\* ondragenter of the item at index i
DragEnter(i) ==
    /\ ui # Idle
    /\ i \in 0..Len(ui.list) - 1
    /\ ui' = IF ui.dragging = NotDragging
             THEN [ui EXCEPT !.last = [op |-> "none", from |-> i, to |-> i,
                                       list |-> ui.list]]
             ELSE IF i # ui.dragging
             THEN [ui EXCEPT !.dragging = i,
                             !.list = Reordered(ui.list, ui.dragging, i),
                             !.last = [op |-> "enter", from |-> ui.dragging, to |-> i,
                                       list |-> ui.list]]
             ELSE [ui EXCEPT !.last = [op |-> "enter", from |-> i, to |-> i,
                                       list |-> ui.list]]
    /\ UNCHANGED <<platform, accounts, pwString, edits, lockedAccount, lockedOf, storedBytes,
                   tamper, unlockRes, wire, decodeRes, probe, updater>>

\* ondragend
DragEnd ==
    /\ ui # Idle
    /\ ui.dragging # NotDragging
    /\ ui' = [ui EXCEPT !.dragging = NotDragging,
                        !.last = [op |-> "end", from |-> ui.dragging, to |-> ui.dragging,
                                  list |-> ui.list]]
    /\ UNCHANGED <<platform, accounts, pwString, edits, lockedAccount, lockedOf, storedBytes,
                   tamper, unlockRes, wire, decodeRes, probe, updater>>

\* a list of up to MaxItems different items, none being dragged
InitOrderable ==
    /\ platform \in Platforms
    /\ probe = Idle
    /\ updater = Idle
    /\ accounts = [a \in Accounts |-> InitAccount(a)]
    /\ pwString = [a \in Accounts |-> <<112>>]
    /\ edits = 0
    /\ lockedAccount = NoAccount
    /\ lockedOf = NoAccount
    /\ storedBytes = <<>>
    /\ tamper = NoTamper
    /\ unlockRes = Idle
    /\ wire = Idle
    /\ decodeRes = Idle
    /\ \E n \in 0..MaxItems :
           ui = [list |-> [i \in 1..n |-> i], first |-> [i \in 1..n |-> i],
                 dragging |-> NotDragging, dragged |-> 0,
                 last |-> [op |-> "none", from |-> 0, to |-> 0, list |-> [i \in 1..n |-> i]]]

NextOrderable ==
    \/ \E i \in 0..MaxItems - 1 : DragStart(i)
    \/ \E i \in 0..MaxItems - 1 : DragEnter(i)
    \/ DragEnd

SpecOrderable == InitOrderable /\ [][NextOrderable]_vars

----------------------------------------------------------------------------
(* Properties of the vault *)

ContactSame(c, d) ==
    /\ SharedContact_eq(c.shared, d.shared)
    /\ c.nickname = d.nickname
    /\ c.note = d.note

AccountSame(got, a) ==
    /\ got.publicData = a.publicData
    /\ got.dsaPrivateKey = a.dsaPrivateKey
    /\ got.dhKeyPair = a.dhKeyPair
    /\ Len(got.contacts) = Len(a.contacts)
    /\ \A i \in 1..Len(a.contacts) : ContactSame(got.contacts[i], a.contacts[i])

UnlockedWithRightPassword ==
    /\ unlockRes.state = "done"
    /\ unlockRes.guess = lockedOf.pw

\* C1: locking an account and unlocking the result with the account's
\* password succeeds and gives back the same public data, the same keys and
\* the same contacts, in order, whatever the name, nicknames and notes are.
C1_LockUnlockRoundTrip ==
    (UnlockedWithRightPassword /\ tamper = NoTamper)
        => /\ unlockRes.err = "none"
           /\ AccountSame(unlockRes.val, lockedOf.account)

ProbeIv == Rep(IvLen, 9)

ProbeData == <<1, 2, 3>>

\* C3: UnlockedPassword.unlock succeeds exactly when the guess is the string
\* the record was made from; then it returns the record unchanged and a key
\* that decrypts what the creation-time key encrypted; any other guess
\* fails with IncorrectPassword and gives no key.
C3_UnlockIffSamePassword ==
    (unlockRes.state = "done" /\ unlockRes.parseErr = "none" /\ tamper = NoTamper)
        => IF unlockRes.guess = lockedOf.pw
           THEN /\ unlockRes.pwErr = "none"
                /\ unlockRes.record = lockedOf.account.password.locked
                /\ AesGcmDecrypt(unlockRes.key, ProbeIv, <<>>,
                                 AesGcmEncrypt(lockedOf.account.password.key, ProbeIv,
                                               <<>>, ProbeData))
                       = Ok(ProbeData, <<>>)
           ELSE /\ unlockRes.pwErr = "IncorrectPassword"
                /\ unlockRes.record = NoAccount
                /\ unlockRes.key = <<>>

C3_ChangedPasswordUnlocks ==
    /\ UnlockedWithRightPassword
    /\ lockedOf.pw = <<113, 233>>
    /\ unlockRes.pwErr = "none"

\* C4: unlock gives TamperedError only when the guess has verified, and a
\* guess that is not the password gives IncorrectPassword whether or not the
\* ciphertext, IV or public data were changed.
C4_TamperedOnlyAfterVerified ==
    unlockRes.state = "done"
        => /\ unlockRes.err = "TamperedError" => unlockRes.pwErr = "none"
           /\ (unlockRes.parseErr = "none" /\ unlockRes.guess # lockedOf.pw)
                  => unlockRes.err = "IncorrectPassword"

C4_WrongGuessOnTampered ==
    /\ unlockRes.state = "done"
    /\ tamper.region = "ciphertext"
    /\ unlockRes.guess # lockedOf.pw
    /\ unlockRes.err = "IncorrectPassword"

----------------------------------------------------------------------------
(* Properties of the message codec *)

DecodedUntampered(kind) ==
    /\ decodeRes # Idle
    /\ tamper = NoTamper
    /\ wire.kind = kind

TextOf(content) == [ok |-> TRUE, content |-> content]

\* C6: a message that A encrypted to B's SharedContact decodes, for B, as a
\* received message with the text A wrote and A as its sender.
C6_EncryptThenDecode ==
    (/\ DecodedUntampered("encrypted")
     /\ isAccount(IF wire.to = NoContact THEN SharedContact_ofAccount(accounts[wire.from])
                  ELSE wire.to, accounts[decodeRes.me]))
        => /\ decodeRes.res.err = "none"
           /\ decodeRes.res.kind = "ReceivedMessage"
           /\ decodeRes.res.message = TextOf(wire.content)
           /\ isAccount(decodeRes.res.sender, accounts[wire.from])

\* C7: a message that A encrypted to another account B decodes, for A, as
\* a sent message naming A's contact entry for B with the text A wrote while
\* B is among A's contacts, and as sent to an unknown recipient once B has
\* been removed.
C7_DecodeAsSender ==
    (/\ DecodedUntampered("encrypted")
     /\ wire.from = decodeRes.me
     /\ wire.to # NoContact)
        => LET known == {i \in 1..Len(decodeRes.contacts) :
                             SharedContact_eq(decodeRes.contacts[i].shared, wire.to)}
           IN /\ decodeRes.res.err = "none"
              /\ IF known = {} THEN decodeRes.res.kind = "SentToUnknown"
                 ELSE /\ decodeRes.res.kind = "SentMessage"
                      /\ \E i \in known : decodeRes.res.receiver = decodeRes.contacts[i]
                      /\ decodeRes.res.message = TextOf(wire.content)

Outcome == decodeRes.res

\* C8: when the sender of a well-formed encrypted message is someone else
\* and the message does not authenticate under the key me shares with that
\* sender (it was meant for another recipient, or its IV, its ciphertext or
\* its sender was replaced), decode returns a received message with the
\* sender as parsed and no text, and raises nothing.
C8_UnreadableIsNull ==
    (/\ decodeRes # Idle
     /\ \/ /\ wire.kind = "encrypted"
           /\ wire.from # decodeRes.me
           /\ \/ tamper.region \in {"iv", "ciphertext"}
              \/ tamper = NoTamper /\ wire.to = NoContact
        \/ /\ wire.kind = "forged"
           /\ wire.content = "replacedSender")
        => /\ Outcome.err = "none"
           /\ Outcome.kind = "ReceivedMessage"
           /\ Outcome.message = NoMessage
           /\ Outcome.sender =
                  SharedContact_ofAccount(IF wire.kind = "forged" THEN Mallory
                                          ELSE accounts[wire.from])

C8_TamperedCiphertextDecoded ==
    /\ decodeRes # Idle
    /\ wire.kind = "encrypted"
    /\ wire.from # decodeRes.me
    /\ tamper.region = "ciphertext"
    /\ Outcome.kind = "ReceivedMessage"
    /\ Outcome.message = NoMessage

\* C9: a signed message decodes as signed by its author, with the text
\* signed and verified = TRUE; with one byte of the signed body changed it
\* still decodes as a signed message, now with verified = FALSE, and no
\* error is raised.
C9_SignedThenDecoded ==
    (decodeRes # Idle /\ wire.kind = "signed" /\ tamper.region \in {"none", "body"})
        => /\ Outcome.err = "none"
           /\ Outcome.kind = "Signed"
           /\ isAccount(Outcome.sender, accounts[wire.from])
           /\ tamper = NoTamper => (Outcome.verified /\ Outcome.message = TextOf(wire.content))
           /\ tamper.region = "body" => ~Outcome.verified

\* C10: decode ends with a Decoded value, with InvalidFormatError or with
\* OutdatedError, whatever the bytes are.
C10_OnlyFormatErrors ==
    decodeRes # Idle => Outcome.err \in {"none", "InvalidFormatError", "OutdatedError"}

Verifies(c) == EcdsaVerify(c.dsaPublicKey, c.signatureHash, c.signature, c.dhPublicKey)

\* C5: every SharedContact read from bytes verifies: the sender or contact
\* of every decoded result and every contact an account holds, also after
\* the account is locked and unlocked; a card whose signature does not
\* verify gives a format error and no SharedContact.
C5_ContactsVerify ==
    /\ \A a \in Accounts : \A i \in 1..Len(accounts[a].contacts) :
           Verifies(accounts[a].contacts[i].shared)
    /\ decodeRes # Idle =>
           /\ Displayed(Outcome) # NoContact => Verifies(Displayed(Outcome))
           /\ (tamper # NoTamper \/ wire.content = "stolenCard") =>
                  (Outcome.err # "none" /\ Outcome.contact = NoContact)
           /\ (tamper.region = "contactSignature" \/ wire.content = "stolenCard") =>
                  Outcome.err = "InvalidFormatError"

C5_KeptContactReadBack ==
    /\ unlockRes.state = "done"
    /\ unlockRes.err = "none"
    /\ Len(accounts[1].contacts) = 1
    /\ accounts[1].contacts[1].shared = SharedContact_ofAccount(Mallory)

----------------------------------------------------------------------------
(* Properties of framing *)

----------------------------------------------------------------------------
(* Properties of tags *)

\* C12: every structure is written with a tag its reader knows, and a
\* reader given a tag it does not know (version tag, password hasher,
\* signature hash, curve, top-level message tag, body sub-tag) fails with
\* OutdatedError, whatever follows the tag: never a format error, never a
\* parsed value.
C12_UnknownTagIsOutdated ==
    probe.state = "read" =>
        /\ probe.written \notin Unrecognised(probe.structure)
        /\ probe.tag \in Unrecognised(probe.structure) => probe.err = "OutdatedError"

\* the private bundle inside the ciphertext carried an unknown version
C12_UnknownBundleVersionRead ==
    /\ probe.state = "read"
    /\ probe.structure = "privateBundle"
    /\ probe.tag = 255
    /\ ~probe.cut
    /\ probe.err = "OutdatedError"

----------------------------------------------------------------------------
(* Properties of the updater *)

\* C13: whatever the order of update requests and lock completions, at
\* most one invocation of lock is in flight for the account.
C13_OneLockInFlight ==
    updater # Idle => Len(updater.locks) <= 1

\* an update was requested while a lock was in flight
C13_RequestedWhileLocking ==
    /\ updater # Idle
    /\ Len(updater.locks) = 1
    /\ updater.toProcess # 0
    /\ updater.locks[1].call # accounts[1]

\* C14: once changes have stopped and no lock is pending, what is stored
\* is the lock of the account as it is.
C14_QuiescentIsPersisted ==
    (updater # Idle /\ ~updater.running) =>
        /\ lockedAccount = LockedAccount_lock(accounts[1], lockedAccount.iv)
        /\ storedBytes = LockedAccount_writeTo(lockedAccount)

\* C15: the LockedAccount a lock returns is the lock of the account as it
\* was when lock was called (Password record, public-data bytes and
\* encrypted bundle alike), whatever was changed while it was pending.
C15_LockIsOfCallState ==
    updater # Idle => lockedAccount = LockedAccount_lock(lockedOf.account, lockedAccount.iv)

\* a lock completed after the account had been changed under it, and the
\* next lock is already reading the changed account
C15_LockedWhileChanged ==
    /\ updater # Idle
    /\ ~updater.tracked
    /\ Len(updater.locks) = 1
    /\ updater.locks[1].call = accounts[1]
    /\ lockedOf.account # accounts[1]
    /\ lockedAccount = LockedAccount_lock(lockedOf.account, lockedAccount.iv)

----------------------------------------------------------------------------
(* Properties of the wire primitives *)

\* the big-endian number in the first n bytes of b
RECURSIVE BigEndian(_, _)
BigEndian(b, n) == IF n = 0 THEN 0 ELSE BigEndian(b, n - 1) * 256 + b[n]

\* how many bytes a read needs of its input
Needs(op, width, input) ==
    IF op = "uint" \/ Len(input) < width THEN width
    ELSE width + BigEndian(input, width)

\* C16: every read (readUint8/16/32, readLenBuffer, readLenString) fails
\* with InvalidFormatError when fewer bytes remain than it needs, a length
\* prefix larger than the rest of the input included; a read that succeeds
\* returns a value made of bytes of the input only and leaves what follows.
C16_ShortReadIsFormatError ==
    (probe # Idle /\ probe.state = "serde") =>
        LET need == Needs(probe.op, probe.width, probe.input) IN
        /\ Len(probe.input) < need => probe.out.err = "InvalidFormatError"
        /\ probe.out.err = "none" =>
              /\ Len(probe.input) >= need
              /\ probe.out.rest = Drop(probe.input, need)
              /\ probe.op = "uint" => probe.out.val = BigEndian(probe.input, probe.width)
              /\ probe.op = "buffer" => probe.out.val = SubSeq(probe.input, probe.width + 1, need)
              /\ probe.op = "string" =>
                     probe.out.val = TextDecode(SubSeq(probe.input, probe.width + 1, need))
        /\ probe.out.err \in {"none", "InvalidFormatError"}

\* a length prefix was read whole and asks for more bytes than are left
C16_PrefixExceedsInput ==
    /\ probe # Idle /\ probe.state = "serde"
    /\ probe.op = "buffer"
    /\ Len(probe.input) >= probe.width
    /\ BigEndian(probe.input, probe.width) > Len(probe.input) - probe.width
    /\ Len(probe.input) > probe.width
    /\ probe.out.err = "InvalidFormatError"

\* the value fits: an integer is below 256^width, a buffer or the UTF-8
\* bytes of a string are shorter than 256^width (the model's numbers
\* all fit four bytes)
Fits(op, width, value) ==
    LET limit == IF width = 1 THEN 256 ELSE 65536
        size == CASE op = "uint" -> value
                  [] op = "buffer" -> Len(value)
                  [] OTHER -> Len(TextEncode(value))
    IN  width = 4 \/ size < limit

\* C17: for every integer of every width (1, 2, 4 bytes) in range and every
\* buffer or string whose length fits the prefix width, reading what was
\* written returns the original value and leaves no bytes in the reader.
C17_ReadsBackWhatWasWritten ==
    (probe # Idle /\ probe.state = "roundtrip" /\ Fits(probe.op, probe.width, probe.value)) =>
        /\ probe.out.err = "none"
        /\ probe.out.val = probe.value
        /\ probe.out.rest = <<>>

----------------------------------------------------------------------------
(* Properties of the stored form *)

\* C18: when LockedAccount.readFrom parses a byte sequence, writeTo of the
\* result emits exactly the bytes that were consumed, and the public-data
\* bytes it keeps are the input's own, not a re-serialization.
C18_WritesBackWhatWasRead ==
    (probe # Idle /\ probe.state = "stored" /\ probe.err = "none") =>
        /\ probe.written \o probe.rest = probe.input
        /\ probe.publicDataBuffer =
               SubSeq(probe.input,
                      Len(probe.input) - Len(probe.rest) - Len(probe.publicDataBuffer) + 1,
                      Len(probe.input) - Len(probe.rest))

\* bytes were parsed whose public data is not what writing the parsed
\* AccountPublic would give, and they were written back as they were
C18_KeptBytesNotCanonical ==
    /\ probe # Idle /\ probe.state = "stored" /\ probe.err = "none"
    /\ probe.publicDataBuffer # probe.reserialized
    /\ probe.written \o probe.rest = probe.input

----------------------------------------------------------------------------
(* Properties of the message body *)

\* C19: writeMessage emits sub-tag 1 and the DEFLATE stream exactly when
\* that stream is strictly shorter than the raw UTF-8 bytes, sub-tag 0 and
\* the raw bytes otherwise, so the body is never longer than 1 + the raw
\* length; readMessage on either representation returns the original text
\* and consumes all the input.
C19_SmallerFormReadsBack ==
    (probe # Idle /\ probe.state = "body") =>
        /\ probe.written = IF Len(probe.compressed) < Len(probe.bytes)
                           THEN <<1>> \o probe.compressed ELSE <<0>> \o probe.bytes
        /\ Len(probe.written) <= 1 + Len(probe.bytes)
        /\ \A out \in {probe.out, probe.outRaw, probe.outCompressed} :
              out.err = "none" /\ out.val = probe.content /\ out.rest = <<>>

----------------------------------------------------------------------------
(* Properties of the key codec *)

\* the curve tag of the first byte (an empty input has none)
CurveTag(input) == IF Len(input) = 0 THEN -1 ELSE input[1] \div 4

\* bytes for a known curve that the import rejects
Malformed(input) ==
    LET n == keyLen(CurveTag(input)) IN
    ~(input[1] % 4 \in {2, 3} /\ OnCurve(SubSeq(input, 2, n + 1)))

\* C20: StoredPublicKey.readFrom fails with OutdatedError when the curve
\* tag of the first byte is not one of the three known curves, with
\* InvalidFormatError when fewer than 1 + N bytes remain (N = 32, 48, 66; an
\* empty input included), and with InvalidFormatError and no other error
\* when the import rejects the point; on success it consumes 1 + N bytes.
C20_KeyReadErrors ==
    (probe # Idle /\ probe.state = "key") =>
        LET input == probe.input
            tag == CurveTag(input)
            n == keyLen(tag)
        IN  /\ tag > 2 => probe.out.err = "OutdatedError"
            /\ Len(input) = 0 => probe.out.err = "InvalidFormatError"
            /\ (tag \in 0..2 /\ Len(input) < 1 + n) => probe.out.err = "InvalidFormatError"
            /\ (tag \in 0..2 /\ Len(input) >= 1 + n /\ Malformed(input)) =>
                   probe.out.err = "InvalidFormatError"
            /\ probe.out.err = "none" =>
                   /\ tag \in 0..2
                   /\ probe.out.val = SubSeq(input, 1, 1 + n)
                   /\ probe.out.rest = Drop(input, 1 + n)

----------------------------------------------------------------------------
(* Properties of AccountPublic *)

\* C21: an AccountPublic whose name takes up to 65535 UTF-8 bytes is read
\* back, from the bytes written for it, with the same name and the same dsa
\* public key.
C21_NameReadBack ==
    (probe # Idle /\ probe.state = "public" /\ Len(TextEncode(probe.name)) <= 65535) =>
        /\ probe.out.err = "none"
        /\ probe.out.val.name = probe.name
        /\ probe.out.val.dsaPublicKey = probe.key
        /\ probe.out.rest = <<>>

----------------------------------------------------------------------------
(* Properties of the account container *)

\* C22: a container written and read back has the same accounts list and
\* the same bin (same lengths, same order, each LockedAccount the same
\* bytes) and the same two flags, which are packed in the last byte as
\* keylogged = bit 1 and scraped = bit 0; a container whose version tag is
\* not 0 fails with OutdatedError.
C22_ContainerReadBack ==
    (probe # Idle /\ probe.state = "db") =>
        /\ probe.versionWritten = 0
        /\ probe.flags = (IF probe.keylogged THEN 2 ELSE 0) + (IF probe.scraped THEN 1 ELSE 0)
        /\ probe.tag # 0 => probe.err = "OutdatedError"
        /\ probe.tag = 0 =>
              /\ probe.err = "none"
              /\ probe.rest = <<>>
              /\ probe.out.accounts = probe.accounts
              /\ probe.out.accountBin = probe.accountBin
              /\ probe.out.keylogged = probe.keylogged
              /\ probe.out.scraped = probe.scraped

----------------------------------------------------------------------------
(* Properties of decode over the contact list *)

\* the parts of an encrypted message: sender, sender bytes, iv, ciphertext
WireParts(bytes) ==
    Then(SharedContact_readFrom(Drop(bytes, 1)), LAMBDA sender :
    Then(readLenBuffer(sender.rest, 1), LAMBDA iv :
    Then(readLenBuffer(iv.rest, 4), LAMBDA ciphertext :
    [sender |-> sender.val,
     senderBytes |-> SubSeq(bytes, 2, Len(bytes) - Len(sender.rest)),
     iv |-> iv.val, ciphertext |-> ciphertext.val])))

\* the key agreed between dhPublicKey and the private key decode was called
\* with decrypts the message on the wire
Opens(dhPublicKey) ==
    LET parts == WireParts(decodeRes.bytes)
        message == decryptMessage(dhPublicKey, decodeRes.calledWith.dhKeyPair.privateKey,
                                  parts.ciphertext, parts.senderBytes, parts.iv)
    IN  message.err = "none" /\ message.val.ok

\* the contacts of the copied list, by index, whose key decrypts the message
Opening == {i \in 1..Len(decodeRes.contacts) : Opens(decodeRes.contacts[i].shared.dhPublicKey)}

DecodedEncrypted ==
    /\ decodeRes # Idle
    /\ decodeRes.state = "done"
    /\ decodeRes.bytes[1] = 0
    /\ decodeRes.res.err = "none"

SentBySelf ==
    WireParts(decodeRes.bytes).sender.dsaPublicKey = decodeRes.calledWith.publicData.dsaPublicKey

C25_ResultIsOfCallState ==
    (decodeRes # Idle /\ decodeRes.state = "done") =>
        LET atCall == decode(decodeRes.calledWith, decodeRes.bytes) IN
        /\ decodeRes.res.err = atCall.err
        /\ decodeRes.res.kind = atCall.kind
        /\ decodeRes.res.receiver = atCall.receiver
        /\ decodeRes.res.message = atCall.message

\* the contact list was edited while decode was pending, and the account
\* as it is now would have given another result
C25_EditedWhilePending ==
    /\ decodeRes # Idle /\ decodeRes.state = "done"
    /\ decodeRes.res.err = "none"
    /\ decodeRes.res.kind \in {"SentMessage", "SentToUnknown"}
    /\ accounts[1].contacts # decodeRes.calledWith.contacts
    /\ LET now == decode(accounts[1], decodeRes.bytes) IN
       \/ now.kind # decodeRes.res.kind
       \/ now.receiver # decodeRes.res.receiver

\* C26: a message an account encrypts with no recipient and decodes itself
\* is a received message whose sender is the account and whose text is the
\* plaintext, whatever its contact list holds.
C26_ToSelfIsReceived ==
    (decodeRes # Idle /\ decodeRes.state = "done" /\ wire.from = 1 /\ wire.to = NoContact) =>
        /\ decodeRes.res.err = "none"
        /\ decodeRes.res.kind = "ReceivedMessage"
        /\ decodeRes.res.sender = SharedContact_ofAccount(accounts[1])
        /\ decodeRes.res.message = [ok |-> TRUE, content |-> wire.content]

----------------------------------------------------------------------------
(* Properties of signed messages *)

\* the sender's card, the signature and the signed body of a signed message
SignedParts(bytes) ==
    Then(SharedContact_readFrom(Drop(bytes, 1)), LAMBDA sender :
    Then(readLenBuffer(sender.rest, 1), LAMBDA signature :
    [sender |-> sender.val, signature |-> signature.val, body |-> signature.rest]))

\* the body is signed by the sender's dsa key under the hash the card states
SignedAsStated ==
    /\ wire # Idle
    /\ wire.kind = "signed"
    /\ decodeRes # Idle
    /\ decodeRes.res.err = "none"
    /\ decodeRes.res.kind = "Signed"
    /\ \E p \in {SignedParts(wire.bytes)} :
           EcdsaVerify(p.sender.dsaPublicKey, p.sender.signatureHash, p.signature, p.body)

\* C24: a signed message whose body is signed by the sender's dsa key under
\* the hash algorithm the sender's card states (SHA-256, SHA-384 or SHA-512)
\* decodes with verified = true
C24_StatedHashVerifies ==
    SignedAsStated => decodeRes.res.verified

\* what holds: the flag is the check of the body under SHA-256
VerifiedIsSha256Check ==
    (/\ wire # Idle /\ wire.kind = "signed" /\ decodeRes # Idle
     /\ decodeRes.res.err = "none" /\ decodeRes.res.kind = "Signed")
    => \E p \in {SignedParts(wire.bytes)} :
           decodeRes.res.verified = EcdsaVerify(p.sender.dsaPublicKey, 0, p.signature, p.body)

----------------------------------------------------------------------------
(* Properties of the updater after a rejection *)

\* C27: once the wrapped function has rejected, running stays set, no
\* invocation of the wrapped function is in flight or started again, and the
\* locked account and the stored bytes stay as they were at the rejection; a
\* later update request only sets the pending value
C27_RejectionStopsUpdater ==
    probe.state = "rejected"
    => /\ updater.running
       /\ updater.locks = <<>>
       /\ lockedAccount = probe.locked
       /\ storedBytes = probe.stored

\* the account was changed after a rejection and the request is left pending
C27_UpdateAfterRejection ==
    /\ probe.state = "rejected"
    /\ edits > probe.edits
    /\ updater.toProcess # 0
    /\ accounts[1] # lockedOf.account

----------------------------------------------------------------------------
(* Properties of lock under password changes *)

\* C28: the Password record of every LockedAccount that lock produces
\* belongs to the password whose key encrypted its data, also when the
\* account's password is replaced while the lock is in flight: some password
\* unlocks it and none finds it tampered with. Once the account as it is
\* now, its password replaced, has been locked again, unlock succeeds with
\* the new password and raises IncorrectPassword for any other.
C28_RecordAndCiphertextAgree ==
    lockedAccount # NoAccount =>
        /\ \E p \in Passwords : LockedAccount_unlock(lockedAccount, p).err = "none"
        /\ \A p \in Passwords :
               LockedAccount_unlock(lockedAccount, p).err \in {"none", "IncorrectPassword"}
        /\ lockedOf.account.password = accounts[1].password
               => \A p \in Passwords :
                      LockedAccount_unlock(lockedAccount, p).err =
                          IF p = pwString[1] THEN "none" ELSE "IncorrectPassword"

\* the password was changed and the account locked again after the change
C28_RelockedAfterChange ==
    /\ lockedAccount # NoAccount
    /\ pwString[1] # LoggedIn(1).pw
    /\ lockedOf.account.password = accounts[1].password
    /\ lockedAccount.password = accounts[1].password.locked
    /\ LockedAccount_unlock(lockedAccount, pwString[1]).err = "none"
    /\ LockedAccount_unlock(lockedAccount, LoggedIn(1).pw).err = "IncorrectPassword"

----------------------------------------------------------------------------
(* Properties of the accounts screen *)

\* the dsa public keys held, list first, then bin
KeysHeld ==
    [i \in 1..Len(ui.accounts) |-> ui.accounts[i].locked.publicData.dsaPublicKey]
    \o [i \in 1..Len(ui.accountBin) |-> ui.accountBin[i].publicData.dsaPublicKey]

\* C29: no dsa public key is held twice, in the accounts list and the bin
\* taken together, after any create, import, replace, restore and replace,
\* delete, restore or permanent delete; create and import of an account not
\* held add one entry, permanent delete removes one, and delete, restore,
\* replace and restore and replace keep the number of entries, an import of
\* an account already held taking the place of the entry it equals.
C29_NoKeyHeldTwice ==
    ui # Idle =>
        /\ \A i, j \in 1..Len(KeysHeld) : KeysHeld[i] = KeysHeld[j] => i = j
        /\ Len(KeysHeld) = ui.last.held
               + CASE ui.last.op \in {"create", "import"} -> 1
                   [] ui.last.op = "purge" -> -1
                   [] OTHER -> 0

\* an account deleted to the bin has been imported again, restored and replaced
C29_RestoredAndReplaced ==
    /\ ui # Idle
    /\ ui.last.op = "restoreReplace"
    /\ Len(ui.accounts) > 1
    /\ ui.accountBin # <<>>
    /\ ui.created > 0

----------------------------------------------------------------------------
(* Properties of OrderableList *)

\* the items of a list other than the dragged one, in their order
Others(list) == SelectSeq(list, LAMBDA item : item # ui.dragged)

\* C30: a drag-enter that moves the dragged item from index a to another
\* index b leaves a permutation of the list before it with the dragged item
\* at b and the other items in the order they had, and the dragging index
\* is b; after any drag-enter events the list has the length and the items
\* it started with, each once, and the dragging index is where the dragged
\* item is.
C30_DragEnterMovesDragged ==
    ui # Idle =>
        /\ (ui.last.op = "enter" /\ ui.last.from # ui.last.to)
               => /\ ui.list[ui.last.to + 1] = ui.last.list[ui.last.from + 1]
                  /\ Others(ui.list) = Others(ui.last.list)
                  /\ Len(ui.list) = Len(ui.last.list)
                  /\ ui.dragging = ui.last.to
        /\ Len(ui.list) = Len(ui.first)
        /\ \A item \in 1..Len(ui.first) :
               Cardinality({k \in 1..Len(ui.list) : ui.list[k] = item}) = 1
        /\ ui.dragging # NotDragging => ui.list[ui.dragging + 1] = ui.dragged

\* the dragged item has been moved past at least two others, upwards
C30_MovedUpPastTwo ==
    /\ ui # Idle
    /\ ui.last.op = "enter"
    /\ ui.last.to + 2 <= ui.last.from
    /\ ui.list # ui.first
    /\ ui.list[ui.last.to + 1] = ui.dragged

====
